---- MODULE Spec2Model ----
(***************************************************************************)
(* File transfer server (server_src/server_impl.py, server_src/data.py)    *)
(* and the byte streams its client (client_src/client_impl.py) exchanges   *)
(* with it.                                                                *)
(*                                                                         *)
(* Spec runs the server against scripted peers; ClientSpec runs it against *)
(* ClientImpl, call by call, and SendLoopSpec with the client's thread     *)
(* kept running; MultiSpec runs it against two peers at once, SharedSpec   *)
(* against two peers that name one destination, and FairSpec two peers     *)
(* with the server's loop kept running.                                    *)
(*                                                                         *)
(* A byte is a string: one character, or ETB (0x17) or CAN (0x18).  A byte *)
(* string is a sequence of bytes.  The JSON envelope of a control frame,   *)
(* {"action": k, "data": v}, is written as the digit k followed by the     *)
(* JSON text of v; the JSON text of the file metadata object is written    *)
(* "{" dest_path "," size "}" (its hash is always null and never read).    *)
(* The text of an exception is one token holding the message.              *)
(***************************************************************************)
EXTENDS Integers, Sequences, FiniteSets, TLC

\* ---------------------------------------------------------------- bounds
\* control-buffer size of the server (Server.buffsize)
BufSize == 8
\* server-wide maximum file block size (Server.max_file_block_size)
MaxBlock == 5
\* largest declared file size of a transfer scenario
MaxSize == 4
\* number of frames a pipelining client sends back-to-back
MaxPipe == 3
\* number of sockets a ClientImpl creates
MaxSocks == 3

\* ------------------------------------------------------- common/const.py
ETB == "ETB"
CAN == "CAN"
\* a byte that is not valid UTF-8
XFF == "0xFF"
CANCEL_B == <<CAN, CAN, CAN, CAN>>
OK_B == <<"O", "K">>
CANCELED_B == <<"C", "A", "N", "C", "E", "L", "E", "D">>
ERROR_B == <<"E", "R", "R", "O", "R">>

ECHO == 1
SET_META == 2
START_SEND == 3
CLEAR_FILE_INFO == 4
SET_FILE_BLOCK_SIZE == 5
ActionIds == {ECHO, SET_META, START_SEND, CLEAR_FILE_INFO, SET_FILE_BLOCK_SIZE}

\* ------------------------------------------------------------ byte strings
DigitChars == <<"0", "1", "2", "3", "4", "5", "6", "7", "8", "9">>

IsDigit(b) == \E i \in 1..10 : DigitChars[i] = b

DigitVal(b) == (CHOOSE i \in 1..10 : DigitChars[i] = b) - 1

RECURSIVE NatStr(_)
NatStr(n) == IF n < 10 THEN <<DigitChars[n + 1]>>
             ELSE NatStr(n \div 10) \o <<DigitChars[(n % 10) + 1]>>

\* str(int) and json.dumps(int): the decimal digits, "-" first when negative
IntStr(n) == IF n < 0 THEN <<"-">> \o NatStr(0 - n) ELSE NatStr(n)

RECURSIVE NatVal(_)
NatVal(bs) == IF Len(bs) = 0 THEN 0
              ELSE 10 * NatVal(SubSeq(bs, 1, Len(bs) - 1)) + DigitVal(bs[Len(bs)])

AllDigits(bs) == Len(bs) > 0 /\ \A i \in 1..Len(bs) : IsDigit(bs[i])

Contains(bs, b) == \E i \in 1..Len(bs) : bs[i] = b

\* index of the first occurrence of b in bs (bs contains b)
IndexOf(bs, b) == CHOOSE i \in 1..Len(bs) : bs[i] = b /\ \A j \in 1..(i - 1) : bs[j] # b

\* bytes.endswith
EndsWith(bs, suffix) ==
    /\ Len(bs) >= Len(suffix)
    /\ SubSeq(bs, Len(bs) - Len(suffix) + 1, Len(bs)) = suffix

\* bs[n:]
Drop(bs, n) == SubSeq(bs, n + 1, Len(bs))

\* bs[:n]
Take(bs, n) == SubSeq(bs, 1, n)

\* ------------------------------------------------------------ JSON values
\* a decoded payload: t is its type, s the text of a string, n the integer,
\* p and n the dest_path and size of a file metadata object
NullV == [t |-> "null", s |-> <<>>, n |-> 0, p |-> <<>>]
StrV(s) == [t |-> "str", s |-> s, n |-> 0, p |-> <<>>]
IntV(n) == [t |-> "int", s |-> <<>>, n |-> n, p |-> <<>>]
MetaV(p, n) == [t |-> "dict", s |-> <<>>, n |-> n, p |-> p]

\* the JSON escape of the control character U+0017, six characters as one token
ESC_ETB == "\\u0017"

\* json.dumps of the characters of a string: a control character is escaped
JsonEscape(s) == [i \in 1..Len(s) |-> IF s[i] = ETB THEN ESC_ETB ELSE s[i]]

\* json.loads of the characters of a string: an escape is the character it names
JsonUnescape(s) == [i \in 1..Len(s) |-> IF s[i] = ESC_ETB THEN ETB ELSE s[i]]

\* json.dumps of a payload
JsonDumps(v) ==
    CASE v.t = "null" -> <<"n", "u", "l", "l">>
      [] v.t = "str" -> <<"\"">> \o JsonEscape(v.s) \o <<"\"">>
      [] v.t = "int" -> IntStr(v.n)
      [] v.t = "dict" -> <<"{">> \o JsonEscape(v.p) \o <<",">> \o IntStr(v.n) \o <<"}">>

\* str() answering with the JSON text of the payload
PyStr_as_json(v) == JsonDumps(v)

\* str() of a decoded payload, as Python prints it
PyStr(v) ==
    CASE v.t = "null" -> <<"N", "o", "n", "e">>
      [] v.t = "str" -> v.s
      [] v.t = "int" -> IntStr(v.n)
      [] v.t = "dict" -> <<"{">> \o v.p \o <<",">> \o IntStr(v.n) \o <<"}">>

Bad == [ok |-> FALSE, v |-> NullV]
Good(v) == [ok |-> TRUE, v |-> v]

\* json.loads of the text of a payload
JsonLoadsValue(bs) ==
    IF bs = <<"n", "u", "l", "l">> THEN Good(NullV)
    ELSE IF Len(bs) >= 2 /\ bs[1] = "\"" /\ bs[Len(bs)] = "\""
              /\ ~Contains(SubSeq(bs, 2, Len(bs) - 1), "\"")
         THEN Good(StrV(JsonUnescape(SubSeq(bs, 2, Len(bs) - 1))))
    ELSE IF AllDigits(bs) THEN Good(IntV(NatVal(bs)))
    ELSE IF Len(bs) >= 2 /\ bs[1] = "-" /\ AllDigits(Drop(bs, 1))
         THEN Good(IntV(0 - NatVal(Drop(bs, 1))))
    ELSE IF Len(bs) >= 4 /\ bs[1] = "{" /\ bs[Len(bs)] = "}" /\ Contains(bs, ",")
              /\ AllDigits(SubSeq(bs, IndexOf(bs, ",") + 1, Len(bs) - 1))
         THEN Good(MetaV(JsonUnescape(SubSeq(bs, 2, IndexOf(bs, ",") - 1)),
                         NatVal(SubSeq(bs, IndexOf(bs, ",") + 1, Len(bs) - 1))))
    ELSE Bad

\* split.decode(self.encoding)
Decodes(bs) == ~Contains(bs, XFF)

\* decode, json.loads of a frame body, then ActionData(**data)
ParseAction(bs) ==
    IF Decodes(bs) /\ Len(bs) >= 2 /\ IsDigit(bs[1]) /\ JsonLoadsValue(Drop(bs, 1)).ok
    THEN [ok |-> TRUE,
          a |-> [action |-> DigitVal(bs[1]), data |-> JsonLoadsValue(Drop(bs, 1)).v]]
    ELSE [ok |-> FALSE, a |-> [action |-> 0, data |-> NullV]]

\* the frame the client sends for an action: json.dumps(asdict(action)) + ETB
EncodeAction(k, v) == <<DigitChars[k + 1]>> \o JsonDumps(v) \o <<ETB>>

\* ------------------------------------------------------------ filesystem
\* Server.root_dir as the prefix of a rooted path
RootDir == <<"r", "/">>

\* Path(p).is_absolute()
IsAbsolute(p) == Len(p) > 0 /\ p[1] = "/"

\* str(self.root_dir / dest_path) for a relative dest_path
Rooted(p) == RootDir \o p

RECURSIVE PathName(_)
\* Path(p).name: the last component
PathName(p) == IF Contains(p, "/") THEN PathName(Drop(p, IndexOf(p, "/"))) ELSE p

\* destinations a client names, and the files the server can touch
RelDest == <<"a">>
AbsDest == <<"/", "a">>
\* the relative destination ../a
DotDest == <<".", ".", "/", "a">>
\* the destination of the second file of a batch
RelDest2 == <<"b">>
AllPaths == {Rooted(RelDest), AbsDest, Rooted(DotDest), Rooted(RelDest2)}

RECURSIVE Components(_)
\* the components of a path, <<"/">> for the leading separator of an absolute one
Components(p) ==
    IF p = <<>> THEN <<>>
    ELSE IF p[1] = "/" THEN <<<<"/">>>> \o Components(Tail(p))
    ELSE IF Contains(p, "/")
         THEN <<Take(p, IndexOf(p, "/") - 1)>> \o Components(Drop(p, IndexOf(p, "/")))
         ELSE <<p>>

RECURSIVE Resolve(_, _)
\* the directory entries open() walks for the components cs, from the entries
\* reached so far: ".." leaves the last one
Resolve(reached, cs) ==
    IF cs = <<>> THEN reached
    ELSE IF Head(cs) = <<".", ".">>
         THEN Resolve(IF reached = <<>> THEN <<>> ELSE Take(reached, Len(reached) - 1), Tail(cs))
         ELSE IF Head(cs) = <<"/">> THEN Resolve(<<>>, Tail(cs))
         ELSE Resolve(Append(reached, Head(cs)), Tail(cs))

\* the file a path names lies in the configured root directory or below it
UnderRoot(p) ==
    LET at == Resolve(<<>>, Components(p))
    IN Len(at) > 1 /\ at[1] = <<"r">>

NoFile == [exists |-> FALSE, data |-> <<>>]
FileOf(bs) == [exists |-> TRUE, data |-> bs]

\* path.exists() finding no file whatever is there
Exists_never(fsys, p) == FALSE

\* path.exists()
Exists(fsys, p) == fsys[p].exists

\* open(path, "wb"): creates the file, or truncates it
OpenWb(fsys, p) == [fsys EXCEPT ![p] = FileOf(<<>>)]

\* file_io.write(recv_data), as the file reads once the handle is closed
WriteFile(fsys, p, bs) ==
    IF fsys[p].exists THEN [fsys EXCEPT ![p] = FileOf(@.data \o bs)] ELSE fsys

\* os.remove(path)
Remove(fsys, p) == [fsys EXCEPT ![p] = NoFile]

\* --------------------------------------------------- server_src/data.py
\* ClientSession.__init__; None is <<>>, a set field is <<value>>
NewSession(file_block_size) ==
    [stdin |-> <<>>, stdout |-> <<>>, actions |-> <<>>,
     is_receiving_file |-> FALSE, file_io |-> <<>>, file_info |-> <<>>,
     file_block_size |-> file_block_size]

\* ServerFileInfo(**action.data)
ServerFileInfo(v) == [dest_path |-> v.p, size |-> v.n, size_transmited |-> 0]

\* session.stdout.extend(bs)
Extend(s, bs) == [s EXCEPT !.stdout = @ \o bs]

\* str(exc) of a frame that does not parse
ParseErrorText == <<"could not parse block">>

\* parse_block pushing the action at the end the next pop takes
parse_block_push_right(s) ==
    LET split == Take(s.stdin, IndexOf(s.stdin, ETB) - 1)
        r == ParseAction(split)
        s1 == IF r.ok
              THEN [s EXCEPT !.actions = @ \o <<r.a>>]
              ELSE Extend(s, ParseErrorText \o ERROR_B \o <<ETB>>)
    IN [s1 EXCEPT !.stdin = Drop(@, Len(split) + 1)]

\* parse_block dropping the whole inbound buffer with a frame it cannot parse
parse_block_drops_buffer(s) ==
    LET split == Take(s.stdin, IndexOf(s.stdin, ETB) - 1)
        r == ParseAction(split)
    IN IF r.ok
       THEN [s EXCEPT !.actions = <<r.a>> \o @, !.stdin = Drop(@, Len(split) + 1)]
       ELSE [Extend(s, ParseErrorText \o ERROR_B \o <<ETB>>) EXCEPT !.stdin = <<>>]

\* ClientSession.parse_block: one delimited frame off stdin
parse_block(s) ==
    LET split == Take(s.stdin, IndexOf(s.stdin, ETB) - 1)
        r == ParseAction(split)
        s1 == IF r.ok
              THEN [s EXCEPT !.actions = <<r.a>> \o @]
              ELSE Extend(s, ParseErrorText \o ERROR_B \o <<ETB>>)
    IN [s1 EXCEPT !.stdin = Drop(@, Len(split) + 1)]

RECURSIVE ParseAll(_)
\* while ETB in session.stdin: session.parse_block()
ParseAll(s) == IF Contains(s.stdin, ETB) THEN ParseAll(parse_block(s)) ELSE s

\* -------------------------------------------- server_src/server_impl.py
\* what a handler leaves: the session, the filesystem, whether an exception
\* escaped it, whether it closed the connection, whether it raised an OSError
Result(s, fsys) == [s |-> s, fs |-> fsys, crash |-> FALSE, closed |-> FALSE, oserr |-> FALSE]
Crash(s, fsys) == [s |-> s, fs |-> fsys, crash |-> TRUE, closed |-> FALSE, oserr |-> FALSE]
Closed(s, fsys) == [s |-> s, fs |-> fsys, crash |-> FALSE, closed |-> TRUE, oserr |-> FALSE]
OsError(s, fsys) == [s |-> s, fs |-> fsys, crash |-> FALSE, closed |-> FALSE, oserr |-> TRUE]

\* _handle_action, Actions.ECHO
Echo(s, data) == Extend(s, PyStr(data))

\* SET_META building the descriptor before it looks at the mode
SetMeta_assigns_before_check(s, data) ==
    IF data.t # "dict"
    THEN Extend(s, <<"argument after ** must be a mapping">>)
    ELSE LET s1 == [s EXCEPT !.file_info = <<ServerFileInfo(data)>>]
         IN IF s.is_receiving_file
            THEN Extend(s1, <<"Cannot set file metadata, currently receiving file">>)
            ELSE IF IsAbsolute(s1.file_info[1].dest_path)
            THEN Extend(s1, <<"Destination file path cannot be absolute">>)
            ELSE Extend([s1 EXCEPT !.file_info[1].dest_path = Rooted(@)], OK_B)

\* _handle_action, Actions.SET_META
SetMeta(s, data) ==
    IF s.is_receiving_file
    THEN Extend(s, <<"Cannot set file metadata, currently receiving file">>)
    ELSE IF data.t # "dict"
    THEN Extend(s, <<"argument after ** must be a mapping">>)
    ELSE LET s1 == [s EXCEPT !.file_info = <<ServerFileInfo(data)>>]
         IN IF IsAbsolute(s1.file_info[1].dest_path)
            THEN Extend(s1, <<"Destination file path cannot be absolute">>)
            ELSE Extend([s1 EXCEPT !.file_info[1].dest_path = Rooted(@)], OK_B)

\* START_SEND without the path.exists() check
StartSend_no_exists_check(s, fsys) ==
    IF s.is_receiving_file
    THEN Result(Extend(s, <<"Cannot start file transmission, currently receiving file">>), fsys)
    ELSE IF s.file_info = <<>>
    THEN Result(Extend(s, <<"'NoneType' object has no attribute 'dest_path'">>), fsys)
    ELSE Result(Extend([s EXCEPT !.file_io = <<s.file_info[1].dest_path>>,
                                 !.is_receiving_file = TRUE], OK_B),
                OpenWb(fsys, s.file_info[1].dest_path))

\* START_SEND opening the destination whatever the mode and the files
StartSend_no_checks(s, fsys) ==
    IF s.file_info = <<>>
    THEN Result(Extend(s, <<"'NoneType' object has no attribute 'dest_path'">>), fsys)
    ELSE Result(Extend([s EXCEPT !.file_io = <<s.file_info[1].dest_path>>,
                                 !.is_receiving_file = TRUE], OK_B),
                OpenWb(fsys, s.file_info[1].dest_path))

\* _handle_action, Actions.START_SEND
StartSend(s, fsys) ==
    IF s.is_receiving_file
    THEN Result(Extend(s, <<"Cannot start file transmission, currently receiving file">>), fsys)
    ELSE IF s.file_info = <<>>
    THEN Result(Extend(s, <<"'NoneType' object has no attribute 'dest_path'">>), fsys)
    ELSE LET path == s.file_info[1].dest_path
         IN IF Exists(fsys, path)
            THEN Result(Extend(s, <<"File '">> \o PathName(path) \o <<"' already exists">>), fsys)
            ELSE Result(Extend([s EXCEPT !.file_io = <<path>>,
                                         !.is_receiving_file = TRUE], OK_B),
                        OpenWb(fsys, path))

\* CLEAR_FILE_INFO answering OK and keeping the descriptor
ClearFileInfo_keeps_descriptor(s) ==
    IF s.is_receiving_file
    THEN Extend(s, <<"Cannot clear file info, file is still open">>)
    ELSE Extend(s, OK_B)

\* _handle_action, Actions.CLEAR_FILE_INFO
ClearFileInfo(s) ==
    IF s.is_receiving_file
    THEN Extend(s, <<"Cannot clear file info, file is still open">>)
    ELSE Extend([s EXCEPT !.file_info = <<>>], OK_B)

\* min(self.max_file_block_size, int(action.data))
Min(a, b) == IF a <= b THEN a ELSE b

\* SET_FILE_BLOCK_SIZE taking the requested size as it is
SetFileBlockSize_no_min(s, data) ==
    IF data.t = "int"
    THEN Extend([s EXCEPT !.file_block_size = data.n], OK_B)
    ELSE IF data.t = "str" /\ AllDigits(data.s)
    THEN Extend([s EXCEPT !.file_block_size = NatVal(data.s)], OK_B)
    ELSE Extend(s, <<"int() argument must be a string, a bytes-like object or a real number">>)

\* _handle_action, Actions.SET_FILE_BLOCK_SIZE; int() takes an integer or the
\* text of one
SetFileBlockSize(s, data) ==
    IF data.t = "int"
    THEN Extend([s EXCEPT !.file_block_size = Min(MaxBlock, data.n)], OK_B)
    ELSE IF data.t = "str" /\ AllDigits(data.s)
    THEN Extend([s EXCEPT !.file_block_size = Min(MaxBlock, NatVal(data.s))], OK_B)
    ELSE Extend(s, <<"int() argument must be a string, a bytes-like object or a real number">>)

\* the queue giving the action at its left end, the newest
PopAction_newest(s) == s.actions[1]

\* session.actions.pop(): the action at the right end
PopAction(s) == s.actions[Len(s.actions)]

\* Server._handle_action: at most one queued action; Actions(action.action)
\* raises for an unknown identifier and start() re-raises it
handle_action(s, fsys) ==
    IF Len(s.actions) = 0 THEN Result(s, fsys)
    ELSE LET action == PopAction(s)
             s1 == [s EXCEPT !.actions = Take(@, Len(@) - 1)]
         IN IF action.action \notin ActionIds THEN Crash(s1, fsys)
            ELSE LET r == CASE action.action = ECHO -> Result(Echo(s1, action.data), fsys)
                            [] action.action = SET_META -> Result(SetMeta(s1, action.data), fsys)
                            [] action.action = START_SEND -> StartSend(s1, fsys)
                            [] action.action = CLEAR_FILE_INFO -> Result(ClearFileInfo(s1), fsys)
                            [] action.action = SET_FILE_BLOCK_SIZE ->
                                   Result(SetFileBlockSize(s1, action.data), fsys)
                 IN Result(Extend(r.s, <<ETB>>), r.fs)

\* Server._handle_file_cancel; os.remove of a missing file raises
\* FileNotFoundError, an OSError
handle_file_cancel(s, fsys) ==
    LET s1 == Extend([s EXCEPT !.is_receiving_file = FALSE, !.file_io = <<>>],
                     CANCELED_B \o <<ETB>>)
        path == s.file_info[1].dest_path
    IN IF Exists(fsys, path) THEN Result(s1, Remove(fsys, path)) ELSE OsError(s1, fsys)

\* _handle_file_done leaving the closed handle in file_io
handle_file_done_keeps_handle(s) ==
    Extend([s EXCEPT !.is_receiving_file = FALSE], OK_B \o <<ETB>>)

\* Server._handle_file_done
handle_file_done(s) ==
    Extend([s EXCEPT !.is_receiving_file = FALSE, !.file_io = <<>>], OK_B \o <<ETB>>)

\* Server._handle_connection, EVENT_READ with data, session receiving a file
ReadFileData(s, fsys, recv_data) ==
    IF EndsWith(recv_data, CANCEL_B) THEN handle_file_cancel(s, fsys)
    ELSE LET s1 == [s EXCEPT !.file_info[1].size_transmited = @ + Len(recv_data)]
             fs1 == WriteFile(fsys, s.file_io[1], recv_data)
         IN IF s1.file_info[1].size = s1.file_info[1].size_transmited
            THEN Result(handle_file_done(s1), fs1)
            ELSE Result(s1, fs1)

\* Server._handle_connection, EVENT_READ with data, session in control mode
ReadControl(s, recv_data) == ParseAll([s EXCEPT !.stdin = @ \o recv_data])

\* the size the read asks recv for
RecvSize(s) == IF s.is_receiving_file THEN s.file_block_size ELSE BufSize

\* the write path dropping the whole buffer after a partial send
SendOut_drops_all(s, sent) == [s EXCEPT !.stdout = <<>>]

\* Server._handle_connection, EVENT_WRITE: sock.send accepted `sent` bytes
SendOut(s, sent) == [s EXCEPT !.stdout = Drop(@, sent)]

\* ------------------------------------------------------------ the clients
Conns == {"c1", "c2"}
\* the connection of the client a single-client run is about
TheConn == "c1"
Listener == "listener"

\* a step of a client: send bytes, wait for one response and take it (need:
\* go on only if it is OK), close the connection, or reset it
Send(bs) == [op |-> "send", data |-> bs, need |-> FALSE]
Recv == [op |-> "recv", data |-> <<>>, need |-> FALSE]
RecvOk == [op |-> "recv", data |-> <<>>, need |-> TRUE]
Close == [op |-> "close", data |-> <<>>, need |-> FALSE]
\* the peer resets the connection (abortive close)
Abort == [op |-> "abort", data |-> <<>>, need |-> FALSE]

Act(k, v) == [action |-> k, data |-> v]
Frame(a) == EncodeAction(a.action, a.data)

\* all sequences over S of length lo..hi
SeqsOf(S, lo, hi) == UNION {[1..n -> S] : n \in lo..hi}

\* a client that sends its frames back-to-back and then reads the responses
PipeActs == {Act(ECHO, StrV(<<"h">>)), Act(SET_FILE_BLOCK_SIZE, IntV(2)),
             Act(SET_FILE_BLOCK_SIZE, IntV(9))}

PipePlan(acts) ==
    [kind |-> "pipe", acts |-> acts, dest |-> <<>>, size |-> 0, content |-> <<>>,
     cancel |-> FALSE,
     script |-> [i \in 1..Len(acts) |-> Send(Frame(acts[i]))]
                \o [i \in 1..Len(acts) |-> Recv] \o <<Close>>]

\* a client that sends one frame and reads its response before the next
EchoValues == {StrV(<<"h", "i">>), IntV(42), NullV}
SyncActs == {Act(START_SEND, NullV), Act(CLEAR_FILE_INFO, NullV), Act(9, NullV),
             Act(SET_META, NullV), Act(SET_FILE_BLOCK_SIZE, NullV)}
             \cup {Act(ECHO, v) : v \in EchoValues}

SyncPlan(acts) ==
    [kind |-> "sync", acts |-> acts, dest |-> <<>>, size |-> 0, content |-> <<>>,
     cancel |-> FALSE,
     script |-> [i \in 1..(2 * Len(acts)) |->
                     IF i % 2 = 1 THEN Send(Frame(acts[(i + 1) \div 2])) ELSE Recv]
                \o <<Close>>]

\* an Echo whose text holds the character U+0017
EtbPlan ==
    [kind |-> "etb", acts |-> <<Act(ECHO, StrV(<<"h", ETB, "i">>))>>, dest |-> <<>>, size |-> 0,
     content |-> <<>>, cancel |-> FALSE,
     script |-> <<Send(Frame(Act(ECHO, StrV(<<"h", ETB, "i">>)))), Recv, Close>>]

\* a client that sends the first byte of the file right behind the StartSend
\* frame, not waiting for its answer
EagerPlan ==
    [kind |-> "eager", acts |-> <<Act(SET_META, MetaV(RelDest, 1)), Act(START_SEND, NullV)>>,
     dest |-> RelDest, size |-> 1, content |-> <<"x">>, cancel |-> FALSE,
     script |-> <<Send(Frame(Act(SET_META, MetaV(RelDest, 1)))), Recv,
                  Send(Frame(Act(START_SEND, NullV)) \o <<"x">>), Recv, Recv, Close>>]

\* block sizes a client can ask for that are not positive
BadBlocks == {0, 0 - 1}

\* a client that asks for the block size n and then transfers one byte
BlockPlan(n) ==
    [kind |-> "block",
     acts |-> <<Act(SET_FILE_BLOCK_SIZE, IntV(n)), Act(SET_META, MetaV(RelDest, 1)),
                Act(START_SEND, NullV)>>,
     dest |-> RelDest, size |-> 1, content |-> <<"x">>, cancel |-> FALSE,
     script |-> <<Send(Frame(Act(SET_FILE_BLOCK_SIZE, IntV(n)))), Recv,
                  Send(Frame(Act(SET_META, MetaV(RelDest, 1)))), Recv,
                  Send(Frame(Act(START_SEND, NullV))), RecvOk,
                  Send(<<"x">>), Recv, Close>>]

\* a frame whose body is no JSON text
GarbagePlan ==
    [kind |-> "garbage", acts |-> <<>>, dest |-> <<>>, size |-> 0, content |-> <<>>,
     cancel |-> FALSE,
     script |-> <<Send(<<"#", ETB>>), Recv, Send(Frame(Act(ECHO, IntV(7)))), Recv, Close>>]

\* a client that transfers one file: SetMeta, StartSend, and once StartSend is
\* answered OK the bytes of content, then the sentinel when it cancels; it
\* reads the terminal response and closes
TransferPlan(dest, size, content, cancel) ==
    [kind |-> "transfer", acts |-> <<Act(SET_META, MetaV(dest, size)), Act(START_SEND, NullV)>>,
     dest |-> dest, size |-> size, content |-> content, cancel |-> cancel,
     script |-> <<Send(Frame(Act(SET_META, MetaV(dest, size)))), Recv,
                  Send(Frame(Act(START_SEND, NullV))), RecvOk>>
                \o (IF Len(content) > 0 THEN <<Send(content)>> ELSE <<>>)
                \o (IF cancel THEN <<Send(CANCEL_B)>> ELSE <<>>)
                \o <<Recv, Close>>]

FileBytes == {"x", CAN}

\* frames sent back-to-back around a StartSend, so that actions are queued
\* behind it and executed while the file is being received
BurstActs ==
    {<<Act(START_SEND, NullV), Act(SET_META, MetaV(RelDest, 2)), Act(START_SEND, NullV),
       Act(START_SEND, NullV)>>,
     <<Act(SET_META, MetaV(RelDest, 2)), Act(START_SEND, NullV), Act(CLEAR_FILE_INFO, NullV)>>,
     <<Act(SET_META, MetaV(RelDest, 2)), Act(START_SEND, NullV),
       Act(SET_META, MetaV(RelDest, 1))>>}

BurstPlan(acts) ==
    [kind |-> "burst", acts |-> acts, dest |-> <<>>, size |-> 0, content |-> <<>>,
     cancel |-> FALSE,
     script |-> [i \in 1..Len(acts) |-> Send(Frame(acts[i]))]
                \o [i \in 1..Len(acts) |-> Recv] \o <<Close>>]

\* frame bodies parse_block cannot turn into an action: no JSON text, an
\* undecodable byte, an envelope without data, nothing at all
GarbageBodies == {<<"#">>, <<XFF>>, <<"7">>, <<>>}

\* a malformed frame and a well-formed Echo behind it, sent together
GarbageThenGood(g) ==
    [kind |-> "garbage2", acts |-> <<Act(ECHO, IntV(7))>>, dest |-> <<>>, size |-> 0,
     content |-> g, cancel |-> FALSE,
     script |-> <<Send(g \o <<ETB>> \o Frame(Act(ECHO, IntV(7)))), Recv, Recv, Close>>]

\* a transfer (one byte sent, or cancelled at once) followed by a StartSend
\* with no SetMeta in between
RetransferPlan(cancel) ==
    [kind |-> "retransfer",
     acts |-> <<Act(SET_META, MetaV(RelDest, 1)), Act(START_SEND, NullV),
                Act(START_SEND, NullV)>>,
     dest |-> RelDest, size |-> 1, content |-> IF cancel THEN <<>> ELSE <<"x">>,
     cancel |-> cancel,
     script |-> <<Send(Frame(Act(SET_META, MetaV(RelDest, 1)))), Recv,
                  Send(Frame(Act(START_SEND, NullV))), RecvOk,
                  Send(IF cancel THEN CANCEL_B ELSE <<"x">>), Recv,
                  Send(Frame(Act(START_SEND, NullV))), Recv, Close>>]

\* a transfer cancelled after one of its two bytes, followed by a StartSend
\* with no SetMeta in between
ResumePlan ==
    [kind |-> "resume",
     acts |-> <<Act(SET_META, MetaV(RelDest, 2)), Act(START_SEND, NullV),
                Act(START_SEND, NullV)>>,
     dest |-> RelDest, size |-> 2, content |-> <<"x">>, cancel |-> TRUE,
     script |-> <<Send(Frame(Act(SET_META, MetaV(RelDest, 2)))), Recv,
                  Send(Frame(Act(START_SEND, NullV))), RecvOk,
                  Send(<<"x">> \o CANCEL_B), Recv,
                  Send(Frame(Act(START_SEND, NullV))), Recv, Close>>]

\* a client that never connects
IdlePlan ==
    [kind |-> "idle", acts |-> <<>>, dest |-> <<>>, size |-> 0, content |-> <<>>,
     cancel |-> FALSE, script |-> <<>>]

\* one client following plan p, the other connections unused
OneClient(p) == [c \in Conns |-> IF c = TheConn THEN p ELSE IdlePlan]

\* a peer that resets the connection: with a request just sent, or in the
\* middle of a transfer
AbortPlans ==
    {[kind |-> "abort", acts |-> <<Act(ECHO, IntV(7))>>, dest |-> <<>>, size |-> 0,
      content |-> <<>>, cancel |-> FALSE,
      script |-> <<Send(Frame(Act(ECHO, IntV(7)))), Abort>>],
     [kind |-> "abort", acts |-> <<Act(SET_META, MetaV(RelDest, 2)), Act(START_SEND, NullV)>>,
      dest |-> RelDest, size |-> 2, content |-> <<"x">>, cancel |-> FALSE,
      script |-> <<Send(Frame(Act(SET_META, MetaV(RelDest, 2)))), Recv,
                   Send(Frame(Act(START_SEND, NullV))), RecvOk, Send(<<"x">>), Abort>>]}

Plans ==
    {PipePlan(acts) : acts \in SeqsOf(PipeActs, 1, MaxPipe)}
    \cup {SyncPlan(<<a>>) : a \in SyncActs}
    \cup {GarbagePlan}
    \cup {TransferPlan(RelDest, Len(content), content, FALSE) :
              content \in SeqsOf(FileBytes, 1, MaxSize)}
    \cup UNION {{TransferPlan(RelDest, n, content, TRUE) :
                     content \in SeqsOf(FileBytes, 0, n - 1)} : n \in 1..MaxSize}
    \cup {TransferPlan(AbsDest, 1, <<"x">>, FALSE)}
    \cup {TransferPlan(DotDest, 1, <<"x">>, FALSE)}
    \cup {BurstPlan(acts) : acts \in BurstActs}
    \cup {SyncPlan(<<Act(SET_META, MetaV(RelDest, 1)), Act(CLEAR_FILE_INFO, NullV),
                     Act(START_SEND, NullV)>>)}
    \cup {GarbageThenGood(g) : g \in GarbageBodies}
    \cup {RetransferPlan(cancel) : cancel \in BOOLEAN}
    \cup {ResumePlan}
    \cup {EtbPlan}
    \cup {EagerPlan}
    \cup {BlockPlan(n) : n \in BadBlocks}
    \cup AbortPlans

\* the files that exist when the server starts
InitialFs ==
    {[p \in AllPaths |-> NoFile],
     [p \in AllPaths |-> IF p = Rooted(RelDest) THEN FileOf(<<"y">>) ELSE NoFile],
     [p \in AllPaths |-> IF p = AbsDest THEN FileOf(<<"y">>) ELSE NoFile]}

\* ------------------------------------------------------------------ state
VARIABLES
    sel,        \* the session sockets registered with the selector, in order
    sess,       \* the ClientSession of each connection
    tick,       \* sessions whose _handle_action is still to run in this pass
    events,     \* what select() returned and is still to be dispatched
    crashed,    \* an exception left Server.start
    fs,         \* the files under the server
    backlog,    \* connections made and not yet accepted
    peer,       \* each client's socket: "idle", "open", "closed", "reset"
    wire,       \* bytes each client has sent that the server has not read
    delivered,  \* bytes the transport has accepted from the server, per client
    rxpos,      \* how many of them the client has consumed
    got,        \* the responses the client has consumed, in order
    script,     \* the steps each client has still to take
    plan,       \* the plan each client follows
    appended,   \* every byte ever appended to the session's stdout
    executed,   \* the actions _handle_action has popped, in order
    windows,    \* <<>> until the platform shows, then <<the build defines WindowsError>>
    teardowns,  \* how many times _close_connection was entered, per connection
    cstdin,     \* ClientImpl.stdin
    responses,  \* ClientImpl.responses
    is_connected, \* ClientImpl.is_connected
    sock,       \* ClientImpl.sock: <<>> or the socket held
    socks,      \* every socket the client has created: its state
    cpc,        \* where the protocol call in progress stands
    rets,       \* how each call of the client ended, in order
    arrived,    \* every response _read_responses has parsed, in order
    cancel_transfer,   \* ClientImpl.cancel_transfer
    cancel_all,        \* ClientImpl.cancel_all
    size_sent,         \* send_file: size_sent
    cancel_button,     \* the window's Cancel button is enabled
    cancel_all_button  \* the window's Cancel all button is enabled

uiVars == <<cancel_transfer, cancel_all, cancel_button, cancel_all_button>>

implVars == <<cstdin, responses, is_connected, sock, socks, cpc, rets, arrived, size_sent,
              uiVars>>

vars == <<sel, sess, tick, events, crashed, fs, backlog, peer, wire, delivered,
          rxpos, got, script, plan, appended, executed, windows, teardowns,
          implVars>>

serverVars == <<sel, sess, tick, events, crashed, fs, appended, executed, windows,
                teardowns>>
clientVars == <<peer, rxpos, got, script, plan>>

\* Server.__init__, ClientSession and ClientImpl.__init__
Constructed ==
    /\ sel = <<>>
    /\ sess = [c \in Conns |-> NewSession(MaxBlock)]
    /\ tick = <<>>
    /\ events = {}
    /\ crashed = FALSE
    /\ fs \in InitialFs
    /\ backlog = <<>>
    /\ peer = [c \in Conns |-> "idle"]
    /\ wire = [c \in Conns |-> <<>>]
    /\ delivered = [c \in Conns |-> <<>>]
    /\ rxpos = [c \in Conns |-> 0]
    /\ got = [c \in Conns |-> <<>>]
    /\ appended = [c \in Conns |-> <<>>]
    /\ executed = [c \in Conns |-> <<>>]
    /\ windows = <<>>
    /\ teardowns = [c \in Conns |-> 0]
    /\ cstdin = <<>>
    /\ responses = <<>>
    /\ is_connected = FALSE
    /\ sock = <<>>
    /\ socks = [i \in 1..MaxSocks |-> "none"]
    /\ cpc = "idle"
    /\ rets = <<>>
    /\ arrived = <<>>
    /\ cancel_transfer = FALSE
    /\ cancel_all = FALSE
    /\ size_sent = 0
    /\ cancel_button = FALSE
    /\ cancel_all_button = FALSE

Init ==
    /\ Constructed
    /\ plan \in {OneClient(p) : p \in Plans}
    /\ script = [c \in Conns |-> plan[c].script]

Range(f) == {f[i] : i \in DOMAIN f}
Live(c) == c \in Range(sel)
Without(q, c) == SelectSeq(q, LAMBDA d : d # c)

\* ---------------------------------------------------------- client steps
\* ClientImpl.connect
ClientConnect(c) ==
    /\ peer[c] = "idle"
    /\ script[c] # <<>>
    /\ peer' = [peer EXCEPT ![c] = "open"]
    /\ backlog' = Append(backlog, c)
    /\ UNCHANGED <<serverVars, wire, delivered, rxpos, got, script, plan, implVars>>

\* ClientImpl._sent_action / send_file: sock.send of the next bytes
ClientSend(c) ==
    /\ peer[c] = "open"
    /\ script[c] # <<>>
    /\ Head(script[c]).op = "send"
    /\ wire' = [wire EXCEPT ![c] = @ \o Head(script[c]).data]
    /\ script' = [script EXCEPT ![c] = Tail(@)]
    /\ UNCHANGED <<serverVars, backlog, peer, delivered, rxpos, got, plan, implVars>>

\* a peer taking the next delimited response once the whole of it has
\* arrived (ClientImpl._read_responses and responses.pop() on a response read
\* in one piece; ImplRead is the client as it is written)
ClientRecv(c) ==
    /\ peer[c] = "open"
    /\ script[c] # <<>>
    /\ Head(script[c]).op = "recv"
    /\ Contains(Drop(delivered[c], rxpos[c]), ETB)
    /\ LET rest == Drop(delivered[c], rxpos[c])
           resp == Take(rest, IndexOf(rest, ETB) - 1)
       IN /\ got' = [got EXCEPT ![c] = Append(@, resp)]
          /\ rxpos' = [rxpos EXCEPT ![c] = @ + Len(resp) + 1]
          /\ script' = [script EXCEPT ![c] =
                            IF Head(@).need /\ resp # OK_B THEN <<Close>> ELSE Tail(@)]
    /\ UNCHANGED <<serverVars, backlog, peer, wire, delivered, plan, implVars>>

\* a peer resetting the connection: what it sent and the server has not read
\* is discarded, and the server's next recv or send on the socket fails
ClientAbort(c) ==
    /\ peer[c] = "open"
    /\ script[c] # <<>>
    /\ Head(script[c]).op = "abort"
    /\ peer' = [peer EXCEPT ![c] = "reset"]
    /\ wire' = [wire EXCEPT ![c] = <<>>]
    /\ script' = [script EXCEPT ![c] = Tail(@)]
    /\ UNCHANGED <<serverVars, backlog, delivered, rxpos, got, plan, implVars>>

\* ClientImpl.close
ClientClose(c) ==
    /\ peer[c] = "open"
    /\ script[c] # <<>>
    /\ Head(script[c]).op = "close"
    /\ peer' = [peer EXCEPT ![c] = "closed"]
    /\ script' = [script EXCEPT ![c] = Tail(@)]
    /\ UNCHANGED <<serverVars, backlog, wire, delivered, rxpos, got, plan, implVars>>

\* ---------------------------------------------------------- server steps
\* what select() can report for a session socket: readable once bytes, the
\* end of the stream or a reset have arrived, writable whenever the transport
\* takes bytes
Masks(c) ==
    {m \in {[r |-> TRUE, w |-> FALSE], [r |-> FALSE, w |-> TRUE], [r |-> TRUE, w |-> TRUE]} :
        m.r => (wire[c] # <<>> \/ peer[c] \in {"closed", "reset"})}

\* Server.start: events = self.sel.select(timeout=None)
Select ==
    /\ ~crashed
    /\ tick = <<>>
    /\ events = {}
    /\ \E L \in SUBSET {Listener}, S \in SUBSET Range(sel) :
          /\ L \cup S # {}
          /\ L # {} => backlog # <<>>
          /\ \E m \in [S -> [r : BOOLEAN, w : BOOLEAN]] :
                /\ \A c \in S : m[c] \in Masks(c)
                /\ events' = {[c |-> Listener, r |-> TRUE, w |-> FALSE] : l \in L}
                               \cup {[c |-> c, r |-> m[c].r, w |-> m[c].w] : c \in S}
    /\ UNCHANGED <<sel, sess, tick, crashed, fs, appended, executed, windows, teardowns, backlog,
                   wire, delivered, clientVars, implVars>>

\* the next pass visiting only the session registered first
NextTick_first_only(evs, registered) ==
    IF evs = {} /\ registered # <<>> THEN <<Head(registered)>> ELSE <<>>

\* after the last event of a pass the loop starts the next pass over the
\* registered sessions
NextTick(evs, registered) == IF evs = {} THEN registered ELSE <<>>

\* Server._accept_connection
accept_connection(e) ==
    /\ ~crashed
    /\ e.c = Listener
    /\ LET c == Head(backlog)
       IN /\ sess' = [sess EXCEPT ![c] = NewSession(MaxBlock)]
          /\ sel' = Append(sel, c)
          /\ backlog' = Tail(backlog)
          /\ events' = events \ {e}
          /\ tick' = NextTick(events', sel')
    /\ UNCHANGED <<crashed, fs, appended, executed, windows, teardowns, wire, delivered, clientVars,
                   implVars>>

\* Server._close_connection: the file handle is closed, the socket
\* unregistered and closed; the session object is left as it is
close_connection(registered, c) == Without(registered, c)

\* the bytes a handler appended to stdout
Added(before, after) == Drop(after.stdout, Len(before.stdout))

\* how many bytes sock.recv can return: nothing when it is asked for nothing or
\* the peer has closed and all its bytes are read, else what has arrived
RecvCounts(s, c) ==
    IF RecvSize(s) <= 0 THEN {0}
    ELSE IF wire[c] = <<>> THEN {0}
    ELSE 1..Min(RecvSize(s), Len(wire[c]))

\* the read path treating what it read as control bytes whatever the mode
ReadPart_ignores_mode(s, fsys, recv_data, reset) ==
    IF RecvSize(s) < 0 THEN Crash(s, fsys)
    ELSE IF reset THEN OsError(s, fsys)
    ELSE IF recv_data = <<>> THEN Closed(s, fsys)
    ELSE Result(ReadControl(s, recv_data), fsys)

\* Server._handle_connection, EVENT_READ: recv of a negative size raises
\* ValueError, recv on a connection the peer has reset raises
\* ConnectionResetError, an empty read closes the connection
ReadPart(s, fsys, recv_data, reset) ==
    IF RecvSize(s) < 0 THEN Crash(s, fsys)
    ELSE IF reset THEN OsError(s, fsys)
    ELSE IF recv_data = <<>> THEN Closed(s, fsys)
    ELSE IF s.is_receiving_file THEN ReadFileData(s, fsys, recv_data)
    ELSE Result(ReadControl(s, recv_data), fsys)

\* the read path returned from the handler: the connection closed, the
\* transfer cancelled, or an exception
Returned(s, rd, recv_data) ==
    rd.crash \/ rd.closed \/ (s.is_receiving_file /\ EndsWith(recv_data, CANCEL_B))

\* the builds an OSError in the read path can meet: `except WindowsError`
\* names a builtin that only Windows builds define, and the build stays what
\* it has shown to be
Builds(rd) ==
    IF ~rd.oserr THEN {FALSE} ELSE IF windows = <<>> THEN BOOLEAN ELSE {windows[1]}

\* Server._handle_connection for a session socket: the read, then the write;
\* sock.send accepts 1..len bytes, or raises once the peer has closed or reset.
\* An OSError of the read path is caught where WindowsError is defined: the
\* connection is closed and the write path still runs, on the closed socket,
\* so that send raises and the second _close_connection raises from
\* unregister; elsewhere evaluating the except clause raises NameError
handle_connection(e) ==
    /\ ~crashed
    /\ e.c # Listener
    /\ \E n \in (IF e.r THEN RecvCounts(sess[e.c], e.c) ELSE {0}) :
       \E rd \in {IF e.r THEN ReadPart(sess[e.c], fs, Take(wire[e.c], n), peer[e.c] = "reset")
                  ELSE Result(sess[e.c], fs)} :
       \E win \in Builds(rd) :
       \E caught \in {rd.oserr /\ win} :
       \E writes \in {e.w /\ rd.s.stdout # <<>>
                      /\ ~(e.r /\ Returned(sess[e.c], rd, Take(wire[e.c], n)))
                      /\ ~(rd.oserr /\ ~win)} :
       \E sent \in (IF writes /\ ~caught THEN 0..Len(rd.s.stdout) ELSE {0}) :
          /\ (writes /\ sent = 0) => (caught \/ peer[e.c] \in {"closed", "reset"})
          /\ sess' = [sess EXCEPT ![e.c] = IF writes /\ sent > 0 THEN SendOut(rd.s, sent)
                                           ELSE rd.s]
          /\ fs' = rd.fs
          /\ crashed' = (rd.crash \/ (rd.oserr /\ ~win) \/ (caught /\ writes))
          /\ windows' = IF rd.oserr THEN <<win>> ELSE windows
          /\ teardowns' = [teardowns EXCEPT ![e.c] =
                               @ + (IF rd.closed \/ caught THEN 1 ELSE 0)
                                 + (IF writes /\ sent = 0 THEN 1 ELSE 0)]
          /\ wire' = [wire EXCEPT ![e.c] = Drop(@, n)]
          /\ delivered' = [delivered EXCEPT ![e.c] = @ \o Take(rd.s.stdout, sent)]
          /\ appended' = [appended EXCEPT ![e.c] = @ \o Added(sess[e.c], rd.s)]
          /\ sel' = IF rd.closed \/ caught \/ (writes /\ sent = 0)
                    THEN close_connection(sel, e.c) ELSE sel
          /\ events' = events \ {e}
          /\ tick' = NextTick(events', sel')
    /\ UNCHANGED <<executed, backlog, clientVars, implVars>>

\* Server.start: self._handle_action(key.data) for the next registered session
TickAction ==
    /\ ~crashed
    /\ tick # <<>>
    /\ \E c \in {Head(tick)} : \E r \in {handle_action(sess[c], fs)} :
          /\ sess' = [sess EXCEPT ![c] = r.s]
          /\ fs' = r.fs
          /\ crashed' = r.crash
          /\ appended' = [appended EXCEPT ![c] = @ \o Added(sess[c], r.s)]
          /\ executed' = [executed EXCEPT ![c] =
                              IF Len(sess[c].actions) = 0 THEN @
                              ELSE Append(@, PopAction(sess[c]))]
          /\ tick' = Tail(tick)
    /\ UNCHANGED <<sel, events, windows, teardowns, backlog, wire, delivered, clientVars,
                   implVars>>

Next ==
    \/ \E c \in Conns : ClientConnect(c)
    \/ \E c \in Conns : ClientSend(c)
    \/ \E c \in Conns : ClientRecv(c)
    \/ \E c \in Conns : ClientClose(c)
    \/ \E c \in Conns : ClientAbort(c)
    \/ Select
    \/ \E e \in events : accept_connection(e)
    \/ \E e \in events : handle_connection(e)
    \/ TickAction

Spec == Init /\ [][Next]_vars

\* ------------------------------------------------------- several sessions
\* what each of two clients connected at once does: two frames sent
\* back-to-back, one request and its answer, a transfer, a request and a reset
MultiPlans ==
    {PipePlan(<<Act(ECHO, StrV(<<"h">>)), Act(SET_FILE_BLOCK_SIZE, IntV(2))>>),
     SyncPlan(<<Act(ECHO, IntV(42))>>),
     TransferPlan(RelDest, 2, <<"x", "x">>, FALSE),
     [kind |-> "abort", acts |-> <<Act(ECHO, IntV(7))>>, dest |-> <<>>, size |-> 0,
      content |-> <<>>, cancel |-> FALSE,
      script |-> <<Send(Frame(Act(ECHO, IntV(7)))), Abort>>]}

MultiInit ==
    /\ Constructed
    /\ fs = [p \in AllPaths |-> NoFile]
    /\ plan \in [Conns -> MultiPlans]
    /\ script = [c \in Conns |-> plan[c].script]

MultiSpec == MultiInit /\ [][Next]_vars

\* two clients that name the same destination: one cancels its transfer and
\* sends StartSend again, the other completes a transfer, cancels one, or
\* resets its connection in the middle of one
SharedPlans ==
    {TransferPlan(RelDest, 1, <<"x">>, FALSE),
     TransferPlan(RelDest, 2, <<"x">>, TRUE)}
    \cup {p \in AbortPlans : p.dest = RelDest}

SharedInit ==
    /\ Constructed
    /\ fs = [p \in AllPaths |-> NoFile]
    /\ plan \in {[c \in Conns |-> IF c = TheConn THEN ResumePlan ELSE p] : p \in SharedPlans}
    /\ script = [c \in Conns |-> plan[c].script]

SharedSpec == SharedInit /\ [][Next]_vars

\* select() reporting session c writable
SelectWritable(c) == Select /\ \E e \in events' : e.c = c /\ e.w

\* the loop of Server.start keeps running: a pass follows each dispatch, select
\* returns whenever a socket is ready, every event it returned is dispatched;
\* and a socket that is writable again and again is reported so
Fairness ==
    /\ WF_vars(TickAction)
    /\ WF_vars(Select)
    /\ WF_vars(\E e \in events : accept_connection(e))
    /\ WF_vars(\E e \in events : handle_connection(e))
    /\ \A c \in Conns : SF_vars(SelectWritable(c))

\* two sessions under the running loop: one sends two frames back-to-back,
\* the other one request, or a request and a reset
FairInit ==
    /\ Constructed
    /\ fs = [p \in AllPaths |-> NoFile]
    /\ plan \in {[c \in Conns |-> IF c = TheConn
                                   THEN PipePlan(<<Act(ECHO, StrV(<<"h">>)),
                                                   Act(SET_FILE_BLOCK_SIZE, IntV(2))>>)
                                   ELSE p] :
                  p \in {q \in MultiPlans : q.kind \in {"sync", "abort"}}}
    /\ script = [c \in Conns |-> plan[c].script]

FairSpec == FairInit /\ [][Next]_vars /\ Fairness

\* ---------------------------------------------- client_src/client_impl.py
\* the client's socket makes the connection TheConn; the server of this model
\* takes it once, so a connect after it is refused

\* ClientImpl.file_block_size
ClientBlock == 2

\* echo_msg of test_connection
echo_msg == <<"H", "w">>

\* ConnectionError("Client not connected")
NotConnected == "Client not connected"

ProtocolCalls ==
    {"set_file_block_size", "test_connection", "set_file_info", "send_file",
     "clear_file_info"}

\* a call of the program that uses the client
Call(op) == [op |-> op, data |-> <<>>, need |-> FALSE, dest |-> <<>>, size |-> 0]

\* a file to send: its destination, the size declared for it, what the source
\* file holds
File(dest, size, content) == [dest |-> dest, size |-> size, content |-> content]

\* set_file_info(FileInfo(dest, None, size)) and send_file(src, size) for file f
FileCall(op, f) ==
    [op |-> op, data |-> f.content, need |-> FALSE, dest |-> f.dest, size |-> f.size]

\* the steps of MainWindow._send_files around the calls: enabling the Cancel
\* all button, the head of the loop over the files, its end, and the lines
\* after the loop
BatchSteps == {"batch_begin", "file_start", "file_end", "batch_end"}

\* ClientImpl.file_block_size of the client that runs plan p
FileBlockSize == plan[TheConn].block

\* the client was made by the window (self.mwh)
Mwh == plan[TheConn].kind = "batch"

\* the ActionData a protocol call sends; p is the call
CallAction(op, p) ==
    CASE op = "set_file_block_size" -> Act(SET_FILE_BLOCK_SIZE, IntV(FileBlockSize))
      [] op = "test_connection" -> Act(ECHO, StrV(echo_msg))
      [] op = "set_file_info" -> Act(SET_META, MetaV(p.dest, p.size))
      [] op = "send_file" -> Act(START_SEND, NullV)
      [] op = "clear_file_info" -> Act(CLEAR_FILE_INFO, NullV)

\* send_file taking the cancellation status for success
Expected_canceled(op) ==
    IF op = "test_connection" THEN echo_msg
    ELSE IF op = "send_file" THEN CANCELED_B ELSE OK_B

\* the response a protocol call returns True for
Expected(op) == IF op = "test_connection" THEN echo_msg ELSE OK_B

\* the guard that lets every call through
not_connected_never(flag) == FALSE

\* if not self.is_connected
not_connected(flag) == ~flag

\* appendleft putting the response at the end pop takes from
appendleft_at_right(q, x) == q \o <<x>>

\* self.responses.appendleft(resp)
appendleft(q, x) == <<x>> \o q

RECURSIVE parse_responses(_, _)
\* _read_responses: while ETB in self.stdin
parse_responses(buf, q) ==
    IF Contains(buf, ETB)
    THEN parse_responses(Drop(buf, IndexOf(buf, ETB)),
                         appendleft(q, Take(buf, IndexOf(buf, ETB) - 1)))
    ELSE [stdin |-> buf, responses |-> q]

RECURSIVE SplitFrames(_)
\* the delimited responses at the head of a buffer, in order
SplitFrames(buf) ==
    IF Contains(buf, ETB)
    THEN <<Take(buf, IndexOf(buf, ETB) - 1)>> \o SplitFrames(Drop(buf, IndexOf(buf, ETB)))
    ELSE <<>>

\* how a call ended: what it returned ("True", "False", "None") or that it
\* raised exc, what it left in the ResponseMsg, how many responses it popped,
\* and which socket failure it met ("none", "guard" for not connected)
Ret(op, ret, exc, fail) ==
    [op |-> op, ret |-> ret, exc |-> exc, fail |-> fail, client_send |-> <<>>,
     client_read |-> <<>>, server_response |-> <<>>, popped |-> 0]

\* resp = self.responses.pop(); msg.server_response = resp; return resp == OK
PopAndReturn(op, q, fail, client_send) ==
    IF q = <<>>
    THEN [r |-> [Ret(op, "raised", "IndexError", fail) EXCEPT !.client_send = client_send],
          q |-> q, took |-> <<>>]
    ELSE [r |-> [Ret(op, IF q[Len(q)] = Expected(op) THEN "True" ELSE "False", "", fail)
                    EXCEPT !.client_send = client_send,
                           !.server_response = <<q[Len(q)]>>,
                           !.popped = 1],
          q |-> Take(q, Len(q) - 1), took |-> <<q[Len(q)]>>]

RECURSIVE FileSteps(_)
\* the body of the loop of _send_files for each file of the list
FileSteps(files) ==
    IF files = <<>> THEN <<>>
    ELSE <<Call("file_start"), FileCall("set_file_info", Head(files)),
           FileCall("send_file", Head(files)), Call("file_end")>> \o FileSteps(Tail(files))

\* the programs that use a client: a batch as the window sends it (the user
\* may click Cancel and Cancel all whenever the window handles its events),
\* calls before and after the connection, each call on a client that never
\* connected, reconnects, and a transfer made call by call
BatchPlan(block, files) ==
    [kind |-> "batch", acts |-> <<>>, dest |-> <<>>, size |-> 0, content |-> <<>>,
     cancel |-> FALSE, block |-> block,
     script |-> <<Call("connect"), Call("set_file_block_size"), Call("batch_begin")>>
                \o FileSteps(files) \o <<Call("batch_end"), Call("close")>>]

CallsPlan(ops) ==
    [kind |-> "calls", acts |-> <<>>, dest |-> RelDest, size |-> 1, content |-> <<"x", "y">>,
     cancel |-> FALSE, block |-> ClientBlock,
     script |-> [i \in 1..Len(ops) |->
                     IF ops[i] \in {"set_file_info", "send_file"}
                     THEN FileCall(ops[i], File(RelDest, 1, <<"x", "y">>))
                     ELSE Call(ops[i])]]

\* a batch of one file whose source holds one byte less than os.stat gave as
\* its size (the file was cut in between)
ShortFilePlan == BatchPlan(ClientBlock, <<File(RelDest, 2, <<"x">>)>>)

\* a block size that holds the whole sentinel
SentinelBlock == Len(CANCEL_B)

ImplPlans ==
    {BatchPlan(ClientBlock, <<File(RelDest, 1, <<"x">>)>>),
     BatchPlan(ClientBlock, <<File(RelDest, 0, <<>>)>>),
     BatchPlan(1, <<File(RelDest, 2, <<"x", "y">>)>>),
     BatchPlan(SentinelBlock, <<File(RelDest, 1, <<"x">>), File(RelDest2, 1, <<"y">>)>>),
     BatchPlan(1, <<File(RelDest, 2, <<"x", "y">>), File(RelDest2, 1, <<"y">>)>>)}
    \cup {CallsPlan(<<"connect", "test_connection", "clear_file_info", "close",
                      "test_connection", "close">>)}
    \cup {CallsPlan(<<op>>) : op \in ProtocolCalls \cup {"close"}}
    \cup {CallsPlan(<<"connect", "connect", "connect", "close", "close">>)}
    \cup {CallsPlan(<<"connect", "set_file_info", "send_file", "close">>)}
    \cup {ShortFilePlan}

ImplInit ==
    /\ Constructed
    /\ plan \in {OneClient(p) : p \in ImplPlans}
    /\ script = [c \in Conns |-> plan[c].script]
    /\ fs = [p \in AllPaths |-> NoFile]

\* what the program does after a call: its next call; in _send_files an
\* exception ends the batch (the window closes the client when it is
\* destroyed) and a set_file_info that returned False skips the file
After(sc, r) ==
    IF ~Mwh THEN Tail(sc)
    ELSE IF r.ret = "raised" THEN <<Call("close")>>
    ELSE IF r.op = "set_file_info" /\ r.ret = "False" THEN Drop(sc, 3)
    ELSE Tail(sc)

\* the call returns (or raises) and the program goes on
Finish(r) ==
    /\ rets' = Append(rets, r)
    /\ script' = [script EXCEPT ![TheConn] = After(@, r)]
    /\ cpc' = "idle"

\* whether sock.send goes through: it raises on a socket that is not
\* connected and can raise once the server has gone
SendOutcomes ==
    IF socks[sock[1]] # "connected" THEN {FALSE}
    ELSE IF crashed THEN {TRUE, FALSE} ELSE {TRUE}

\* ClientImpl.connect: close() if a socket is held (close() returns at its
\* guard when is_connected is False), a new socket, connect, is_connected.
\* A socket whose reference is overwritten without close() is closed when
\* the runtime finalizes it, at once or later.
ImplConnect ==
    /\ cpc = "idle"
    /\ script[TheConn] # <<>>
    /\ Head(script[TheConn]).op = "connect"
    /\ LET new == 1 + Cardinality({i \in 1..MaxSocks : socks[i] # "none"})
           closes == sock # <<>> /\ ~not_connected(is_connected)
           drops == sock # <<>> /\ not_connected(is_connected)
       IN /\ new <= MaxSocks
          /\ \E ok \in (IF peer[TheConn] = "idle" /\ ~crashed THEN BOOLEAN ELSE {FALSE}),
                finalized \in (IF drops THEN BOOLEAN ELSE {FALSE}) :
                /\ socks' = [i \in 1..MaxSocks |->
                                IF i = new THEN (IF ok THEN "connected" ELSE "unconnected")
                                ELSE IF sock = <<i>> /\ (closes \/ finalized) THEN "closed"
                                ELSE socks[i]]
                /\ sock' = <<new>>
                /\ is_connected' = ok
                /\ peer' = [peer EXCEPT ![TheConn] =
                                IF ok THEN "open" ELSE IF closes THEN "closed" ELSE @]
                /\ backlog' = IF ok THEN Append(backlog, TheConn) ELSE backlog
                /\ Finish(IF ok THEN Ret("connect", "None", "", "none")
                          ELSE Ret("connect", "raised", "socket.error", "connect"))
    /\ UNCHANGED <<serverVars, wire, delivered, rxpos, got, plan, cstdin, responses, arrived,
                   size_sent, uiVars>>

\* ClientImpl.close
ImplClose ==
    /\ cpc = "idle"
    /\ script[TheConn] # <<>>
    /\ Head(script[TheConn]).op = "close"
    /\ IF not_connected(is_connected)
       THEN /\ Finish([Ret("close", "False", "", "guard") EXCEPT !.client_send = <<NotConnected>>])
            /\ UNCHANGED <<peer, is_connected, sock, socks>>
       ELSE IF sock = <<>>
       THEN /\ Finish(Ret("close", "raised", "AttributeError", "none"))
            /\ UNCHANGED <<peer, is_connected, sock, socks>>
       ELSE /\ socks' = [socks EXCEPT ![sock[1]] = "closed"]
            /\ sock' = <<>>
            /\ is_connected' = FALSE
            /\ peer' = [peer EXCEPT ![TheConn] = IF @ = "open" THEN "closed" ELSE @]
            /\ Finish(Ret("close", "None", "", "none"))
    /\ UNCHANGED <<serverVars, backlog, wire, delivered, rxpos, got, plan, cstdin, responses,
                   arrived, size_sent, uiVars>>

\* a protocol call up to the end of the sends of _sent_action: the guard,
\* then sock.send of the frame.  When the send raises, _sent_action returns
\* False; set_file_block_size returns False on that, the other calls go on
\* to responses.pop()
ImplCall ==
    /\ cpc = "idle"
    /\ script[TheConn] # <<>>
    /\ Head(script[TheConn]).op \in ProtocolCalls
    /\ \E op \in {Head(script[TheConn]).op} :
          IF not_connected(is_connected)
          THEN /\ Finish([Ret(op, "False", "", "guard") EXCEPT !.client_send = <<NotConnected>>])
               /\ UNCHANGED <<wire, responses, got>>
          ELSE IF sock = <<>>
          THEN /\ Finish(Ret(op, "raised", "AttributeError", "none"))
               /\ UNCHANGED <<wire, responses, got>>
          ELSE \E sent \in SendOutcomes :
                 IF sent
                 THEN /\ wire' = [wire EXCEPT ![TheConn] =
                                      @ \o Frame(CallAction(op, Head(script[TheConn])))]
                      /\ cpc' = "wait"
                      /\ UNCHANGED <<rets, script, responses, got>>
                 ELSE IF op = "set_file_block_size"
                 THEN /\ Finish(Ret(op, "False", "", "send"))
                      /\ UNCHANGED <<wire, responses, got>>
                 ELSE \E pr \in {PopAndReturn(op, responses, "send", <<"socket.error">>)} :
                        /\ responses' = pr.q
                        /\ got' = [got EXCEPT ![TheConn] = @ \o pr.took]
                        /\ wire' = wire
                        /\ IF op = "send_file" /\ pr.took = <<OK_B>>
                           THEN cpc' = "data" /\ UNCHANGED <<rets, script>>
                           ELSE Finish(pr.r)
    /\ size_sent' = IF cpc' = "data" THEN 0 ELSE size_sent
    /\ UNCHANGED <<serverVars, backlog, peer, delivered, rxpos, plan, cstdin, is_connected,
                   sock, socks, arrived, uiVars>>

\* _read_responses and what the call does with its result.  The blocking
\* recv returns the bytes that have arrived, or nothing at the end of the
\* stream, or raises; the non-blocking reads after it find nothing more.  In
\* _sent_action (cpc "wait") no msg is passed and the callers other than
\* set_file_block_size ignore the result; send_file passes msg to its second
\* read (cpc "wait2") and returns False when that fails.
ImplRead ==
    /\ cpc \in {"wait", "wait2"}
    /\ \E op \in {Head(script[TheConn]).op} :
       \E avail \in {Drop(delivered[TheConn], rxpos[TheConn])} :
          /\ avail # <<>> \/ crashed
          /\ \E how \in (IF avail # <<>> THEN {"data"} ELSE {"eof", "read"}) :
                IF how = "read" /\ (cpc = "wait2" \/ op = "set_file_block_size")
                THEN /\ Finish([Ret(op, "False", "", "read") EXCEPT
                                   !.client_read = IF cpc = "wait2" THEN <<"socket.error">>
                                                   ELSE <<>>])
                     /\ UNCHANGED <<cstdin, responses, arrived, rxpos, got>>
                ELSE \E p \in {IF how = "data" THEN parse_responses(cstdin \o avail, responses)
                               ELSE [stdin |-> cstdin, responses |-> responses]} :
                     \E pr \in {PopAndReturn(op, p.responses,
                                             IF how = "data" THEN "none" ELSE how, <<>>)} :
                        /\ cstdin' = p.stdin
                        /\ rxpos' = [rxpos EXCEPT ![TheConn] = @ + Len(avail)]
                        /\ arrived' = arrived \o SplitFrames(cstdin \o avail)
                        /\ responses' = pr.q
                        /\ got' = [got EXCEPT ![TheConn] = @ \o pr.took]
                        /\ IF cpc = "wait" /\ op = "send_file" /\ pr.took = <<OK_B>>
                           THEN cpc' = "data" /\ UNCHANGED <<rets, script>>
                           ELSE Finish(pr.r)
    /\ size_sent' = IF cpc' = "data" THEN 0 ELSE size_sent
    /\ UNCHANGED <<serverVars, backlog, peer, wire, delivered, plan, is_connected, sock, socks,
                   uiVars>>

\* the loop looking at cancel_transfer only
Cancelling_transfer_only(transfer, all) == transfer

\* if self.cancel_transfer or self.cancel_all
Cancelling(transfer, all) == transfer \/ all

\* count taken as the block size whatever is left of the declared size
ChunkLen_whole_block(block, size, sent) == block

\* count = self.file_block_size; if size - size_sent < count: count = size - size_sent
ChunkLen(block, size, sent) == IF size - sent < block THEN size - sent ELSE block

\* sock.sendfile(file_io, offset, count): the bytes of the file from offset,
\* count of them or as many as the file has left
SendFile(content, offset, count) ==
    IF count <= 0 \/ offset >= Len(content) THEN <<>>
    ELSE SubSeq(content, offset + 1, Min(offset + count, Len(content)))

\* one turn of the loop of send_file after StartSend was answered OK: it is
\* left once size_sent is the declared size; with a cancel flag up the
\* sentinel is sent, cancel_transfer cleared and the loop left; else the
\* next block goes out and, in the window's client, the window handles its
\* events.  sendfile is inside the try (return False, error in msg);
\* sock.send(CANCEL_B) is not.  After the loop comes the second read
ImplSendData ==
    /\ cpc = "data"
    /\ \E f \in {Head(script[TheConn])} :
          IF size_sent = f.size
          THEN /\ cpc' = "wait2"
               /\ UNCHANGED <<wire, size_sent, cancel_transfer, rets, script>>
          ELSE \E sent \in SendOutcomes :
                 IF Cancelling(cancel_transfer, cancel_all)
                 THEN IF sent
                      THEN /\ wire' = [wire EXCEPT ![TheConn] = @ \o CANCEL_B]
                           /\ cancel_transfer' = FALSE
                           /\ cpc' = "wait2"
                           /\ UNCHANGED <<size_sent, rets, script>>
                      ELSE /\ Finish(Ret("send_file", "raised", "socket.error", "send"))
                           /\ UNCHANGED <<wire, size_sent, cancel_transfer>>
                 ELSE IF sent
                      THEN \E chunk \in {SendFile(f.data, size_sent,
                                                   ChunkLen(FileBlockSize, f.size, size_sent))} :
                             /\ wire' = [wire EXCEPT ![TheConn] = @ \o chunk]
                             /\ size_sent' = size_sent + Len(chunk)
                             /\ cpc' = IF Mwh THEN "update" ELSE "data"
                             /\ UNCHANGED <<cancel_transfer, rets, script>>
                      ELSE /\ Finish([Ret("send_file", "False", "", "send") EXCEPT
                                          !.client_send = <<"socket.error">>])
                           /\ UNCHANGED <<wire, size_sent, cancel_transfer>>
    /\ UNCHANGED <<serverVars, backlog, peer, delivered, rxpos, got, plan, cstdin, responses,
                   is_connected, sock, socks, arrived, cancel_all, cancel_button,
                   cancel_all_button>>

\* self.mwh.top.update() after a block: the window handles the clicks made
\* meanwhile on its enabled buttons.  _cancel_click and _cancel_all disable
\* their button and set the client's flag
ImplUpdate ==
    /\ cpc = "update"
    /\ \E click \in (IF cancel_button THEN BOOLEAN ELSE {FALSE}),
          click_all \in (IF cancel_all_button THEN BOOLEAN ELSE {FALSE}) :
          /\ cancel_transfer' = (cancel_transfer \/ click)
          /\ cancel_button' = (cancel_button /\ ~click)
          /\ cancel_all' = (cancel_all \/ click_all)
          /\ cancel_all_button' = (cancel_all_button /\ ~click_all)
    /\ cpc' = "data"
    /\ UNCHANGED <<serverVars, backlog, peer, wire, delivered, rxpos, got, script, plan, cstdin,
                   responses, is_connected, sock, socks, rets, arrived, size_sent>>

\* the loop over the files going on with the body for this file
SkipFiles_goes_on(sc) == Tail(sc)

RECURSIVE SkipFiles(_)
\* break: the steps after the loop over the files
SkipFiles(sc) ==
    IF sc = <<>> \/ Head(sc).op = "batch_end" THEN sc ELSE SkipFiles(Tail(sc))

\* MainWindow._send_files between the calls of its client
ImplBatch ==
    /\ cpc = "idle"
    /\ script[TheConn] # <<>>
    /\ Head(script[TheConn]).op \in BatchSteps
    /\ \E op \in {Head(script[TheConn]).op} :
          /\ cancel_all_button' = CASE op = "batch_begin" -> TRUE
                                     [] op = "batch_end" -> FALSE
                                     [] OTHER -> cancel_all_button
          /\ cancel_button' = CASE op = "file_start" /\ ~cancel_all -> TRUE
                                 [] op = "file_end" -> FALSE
                                 [] OTHER -> cancel_button
          /\ cancel_all' = IF op \in {"file_start", "batch_end"} THEN FALSE ELSE cancel_all
          /\ cancel_transfer' = IF op = "batch_end" THEN FALSE ELSE cancel_transfer
          /\ script' = [script EXCEPT ![TheConn] =
                            IF op = "file_start" /\ cancel_all THEN SkipFiles(@) ELSE Tail(@)]
    /\ UNCHANGED <<serverVars, backlog, peer, wire, delivered, rxpos, got, plan, cstdin,
                   responses, is_connected, sock, socks, cpc, rets, arrived, size_sent>>

\* the server process ends while the client is connected: an exception
\* leaves Server.start, or the process is stopped
ServerStops ==
    /\ ~crashed
    /\ peer[TheConn] = "open"
    /\ crashed' = TRUE
    /\ UNCHANGED <<sel, sess, tick, events, fs, appended, executed, windows, teardowns, backlog,
                   wire,
                   delivered, clientVars, implVars>>

ImplNext ==
    \/ ImplConnect
    \/ ImplCall
    \/ ImplRead
    \/ ImplSendData
    \/ ImplUpdate
    \/ ImplBatch
    \/ ImplClose
    \/ ServerStops
    \/ Select
    \/ \E e \in events : accept_connection(e)
    \/ \E e \in events : handle_connection(e)
    \/ TickAction

ClientSpec == ImplInit /\ [][ImplNext]_vars

\* the client's thread keeps running: a turn of the loop of send_file that
\* can be taken is taken, and so is the window's update() after a block
SendLoopSpec == ClientSpec /\ WF_vars(ImplSendData) /\ WF_vars(ImplUpdate)

\* ------------------------------------------------------------------ claims
Reverse(q) == [i \in 1..Len(q) |-> q[Len(q) + 1 - i]]

IsPrefix(p, bs) == Len(p) <= Len(bs) /\ Take(bs, Len(p)) = p

\* the step executed an action of kind k for session c
Executes(c, k) ==
    /\ Len(executed'[c]) = Len(executed[c]) + 1
    /\ executed'[c][Len(executed'[c])].action = k

\* the bytes the step appended to the stdout of session c
Answer(c) == Drop(appended'[c], Len(appended[c]))

\* the response frame of an Echo of a string or of a SetFileBlockSize
C1_Response(a) == (IF a.action = ECHO THEN a.data.s ELSE OK_B) \o <<ETB>>

RECURSIVE C1_Responses(_)
C1_Responses(acts) ==
    IF acts = <<>> THEN <<>> ELSE C1_Response(Head(acts)) \o C1_Responses(Tail(acts))

\* C1: for a client that sends N well-formed Echo and SetFileBlockSize frames
\* back-to-back, however the stream is split into reads and interleaved with
\* passes, the actions executed followed by the actions queued (oldest first)
\* are a prefix of the frames sent, in order, and the outbound history is the
\* responses of the executed actions in that same order.
C1_FifoOrder ==
    \A c \in Conns : plan[c].kind = "pipe" =>
        /\ IsPrefix(executed[c] \o Reverse(sess[c].actions), plan[c].acts)
        /\ appended[c] = C1_Responses(executed[c])

\* three different frames were queued together and the oldest was executed first
C1_Witness ==
    \E c \in Conns :
        /\ plan[c].kind = "pipe"
        /\ Len(plan[c].acts) = 3
        /\ plan[c].acts[1] # plan[c].acts[2]
        /\ plan[c].acts[2] # plan[c].acts[3]
        /\ Len(executed[c]) = 1
        /\ Len(sess[c].actions) = 2
        /\ appended[c] = C1_Response(plan[c].acts[1])

\* the client of c transfers a file to the relative destination, completely
\* (cancel = FALSE) or cancelling after the bytes of content
Transfers(c, cancel) ==
    /\ plan[c].kind = "transfer"
    /\ plan[c].dest = RelDest
    /\ plan[c].cancel = cancel

\* the client of c has read the terminal response of a transfer that
\* StartSend had answered OK
Terminal(c) == Len(got[c]) = 3 /\ got[c][2] = OK_B

\* C2: after SetMeta(relative dest, n) and a successful StartSend, once the
\* client has sent exactly n bytes, whatever the bytes and the reads, the
\* terminal response is OK, the session is in CONTROL and the file holds
\* exactly the bytes sent.
C2_RoundTrip ==
    \A c \in Conns : (Transfers(c, FALSE) /\ Terminal(c)) =>
        /\ got[c][3] = OK_B
        /\ ~sess[c].is_receiving_file
        /\ fs[Rooted(plan[c].dest)] = FileOf(plan[c].content)

\* C3: after k < n file bytes (here k >= 1) and the 4-byte sentinel, whatever
\* k and the reads, the terminal response is CANCELED, the session is in
\* CONTROL with no open file handle and the destination file does not exist.
C3_CancelMidTransfer ==
    \A c \in Conns : (Transfers(c, TRUE) /\ Len(plan[c].content) >= 1 /\ Terminal(c)) =>
        /\ got[c][3] = CANCELED_B
        /\ ~sess[c].is_receiving_file
        /\ sess[c].file_io = <<>>
        /\ ~Exists(fs, Rooted(plan[c].dest))

\* C4: a SetMeta with an absolute destination is answered non-OK and
\* registers no descriptor, so the StartSend that follows on a session that
\* had none is answered non-OK and opens no file.
C4_AbsoluteRejected ==
    \A c \in Conns : (plan[c].kind = "transfer" /\ plan[c].dest = AbsDest) =>
        /\ Len(got[c]) >= 1 => got[c][1] # OK_B
        /\ sess[c].file_info = <<>>
        /\ Len(got[c]) >= 2 => got[c][2] # OK_B
        /\ sess[c].file_io = <<>>
        /\ ~sess[c].is_receiving_file

\* C5: a StartSend executed in CONTROL for a descriptor whose destination
\* exists is answered with one frame that is not OK, changes no file, opens
\* no file handle and leaves the session in CONTROL.
C5_ExistingDestination ==
    [][\A c \in Conns :
          (/\ Executes(c, START_SEND)
           /\ ~sess[c].is_receiving_file
           /\ sess[c].file_info # <<>>
           /\ Exists(fs, sess[c].file_info[1].dest_path))
          => /\ Answer(c) # OK_B \o <<ETB>>
             /\ Len(Answer(c)) >= 2
             /\ Answer(c)[Len(Answer(c))] = ETB
             /\ fs' = fs
             /\ sess'[c].file_io = <<>>
             /\ ~sess'[c].is_receiving_file]_vars

\* the client was told that the destination exists, and the file is as it was
C5_Witness ==
    \E c \in Conns :
        /\ Transfers(c, FALSE)
        /\ Len(got[c]) = 2
        /\ got[c][2] = <<"File '", "a", "' already exists">>
        /\ fs[Rooted(RelDest)] = FileOf(<<"y">>)
        /\ sess[c].file_io = <<>>

\* C6: SetFileBlockSize(r) sets the session's chunk size to min(r, maximum)
\* and answers OK, and every session's chunk size is at most the maximum in
\* every reachable state.
C6_ChunkSizeClamped ==
    /\ [](\A c \in Conns : sess[c].file_block_size <= MaxBlock)
    /\ [][\A c \in Conns :
             (Executes(c, SET_FILE_BLOCK_SIZE) /\ executed'[c][Len(executed'[c])].data.t = "int")
             => /\ sess'[c].file_block_size
                     = (IF executed'[c][Len(executed'[c])].data.n < MaxBlock
                        THEN executed'[c][Len(executed'[c])].data.n ELSE MaxBlock)
                /\ Answer(c) = OK_B \o <<ETB>>]_vars

\* a request above the maximum was executed and the chunk size is the maximum;
\* before it a request below the maximum had been granted
C6_Witness ==
    \E c \in Conns :
        /\ Len(executed[c]) = 2
        /\ executed[c][1] = Act(SET_FILE_BLOCK_SIZE, IntV(2))
        /\ executed[c][2] = Act(SET_FILE_BLOCK_SIZE, IntV(9))
        /\ sess[c].file_block_size = MaxBlock

\* C7: whatever number of bytes each send accepts, the bytes the transport
\* has accepted followed by the bytes still in the outbound buffer are the
\* bytes appended to the outbound buffer: none dropped, duplicated or reordered.
C7_PartialWrites ==
    \A c \in Conns : delivered[c] \o sess[c].stdout = appended[c]

\* a send accepted part of a response and the rest waits in the buffer
C7_Witness ==
    \E c \in Conns :
        /\ Len(delivered[c]) >= 3
        /\ delivered[c][Len(delivered[c])] # ETB
        /\ Len(sess[c].stdout) >= 2

\* the client of c sends one Echo and reads its response
Echoes(c) ==
    /\ plan[c].kind = "sync"
    /\ plan[c].acts[1].action = ECHO
    /\ Len(got[c]) = 1

\* C8 as stated: the response of Echo("hi"), Echo(42) and Echo(null) is the
\* JSON text of the payload sent.
C8_EchoJson ==
    \A c \in Conns : Echoes(c) => got[c][1] = JsonDumps(plan[c].acts[1].data)

\* the text Python's str() gives a decoded JSON scalar
C8_Text(v) ==
    CASE v.t = "str" -> v.s
      [] v.t = "int" -> IntStr(v.n)
      [] v.t = "null" -> <<"N", "o", "n", "e">>

\* C8 amended: the response of Echo is str() of the decoded payload: the
\* decimal digits of an integer (its JSON text), the characters of a string
\* without the quotes of its JSON text, and None for null.
C8_EchoStr ==
    \A c \in Conns : Echoes(c) => got[c][1] = C8_Text(plan[c].acts[1].data)

\* the client read the response of Echo(null)
C8_Witness ==
    \E c \in Conns :
        /\ Echoes(c)
        /\ plan[c].acts[1].data = NullV
        /\ got[c][1] = <<"N", "o", "n", "e">>

\* C9: for every live session, the file handle is set if and only if the
\* session is receiving a file.
C9_HandleIffReceiving ==
    \A c \in Conns : Live(c) => ((sess[c].file_io # <<>>) <=> sess[c].is_receiving_file)

\* a transfer completed: the session is live, back in CONTROL, its handle unset
C9_Witness ==
    \E c \in Conns :
        /\ Live(c)
        /\ Transfers(c, FALSE)
        /\ sess[c].file_info # <<>>
        /\ sess[c].file_info[1].size_transmited = sess[c].file_info[1].size
        /\ ~sess[c].is_receiving_file
        /\ sess[c].file_io = <<>>
        /\ fs[Rooted(RelDest)] = FileOf(plan[c].content)

\* C10: for every session with a descriptor, the bytes received never exceed
\* the declared size.
C10_ReceivedWithinSize ==
    \A c \in Conns : (Live(c) /\ sess[c].file_info # <<>>) =>
        sess[c].file_info[1].size_transmited <= sess[c].file_info[1].size

\* the step answered session c with one frame that is not OK
Refuses(c) ==
    /\ Len(Answer(c)) >= 2
    /\ Answer(c)[Len(Answer(c))] = ETB
    /\ ~Contains(Take(Answer(c), Len(Answer(c)) - 1), ETB)
    /\ Answer(c) # OK_B \o <<ETB>>

\* C11: a StartSend executed on a session that has no pending descriptor or
\* is already receiving a file is answered non-OK, creates and opens no file,
\* and leaves the mode flag, the file handle and the descriptor as they were.
C11_StartSendRefused ==
    [][\A c \in Conns :
          (/\ Executes(c, START_SEND)
           /\ (sess[c].file_info = <<>> \/ sess[c].is_receiving_file))
          => /\ Refuses(c)
             /\ fs' = fs
             /\ sess'[c].is_receiving_file = sess[c].is_receiving_file
             /\ sess'[c].file_io = sess[c].file_io
             /\ sess'[c].file_info = sess[c].file_info]_vars

\* one session was refused a StartSend for each reason: first with no
\* descriptor, later while it was receiving, and it is still receiving
C11_Witness ==
    \E c \in Conns :
        /\ plan[c].kind = "burst"
        /\ Len(executed[c]) = 4
        /\ executed[c][4].action = START_SEND
        /\ Contains(appended[c], "'NoneType' object has no attribute 'dest_path'")
        /\ Contains(appended[c], "Cannot start file transmission, currently receiving file")
        /\ sess[c].is_receiving_file
        /\ sess[c].file_io = <<Rooted(RelDest)>>
        /\ sess[c].file_info # <<>>

\* C12: a ClearFileInfo executed in CONTROL discards the pending descriptor
\* and answers OK, so the StartSend a client sends next is answered non-OK;
\* executed while a file is being received it is answered non-OK and the
\* descriptor stays as it was.
C12_ClearFileInfo ==
    /\ [](\A c \in Conns :
             (/\ plan[c].kind = "sync"
              /\ Len(plan[c].acts) = 3
              /\ Len(got[c]) = 3
              /\ got[c][2] = OK_B) => got[c][3] # OK_B)
    /\ [][\A c \in Conns : Executes(c, CLEAR_FILE_INFO) =>
             IF sess[c].is_receiving_file
             THEN Refuses(c) /\ sess'[c].file_info = sess[c].file_info
             ELSE Answer(c) = OK_B \o <<ETB>> /\ sess'[c].file_info = <<>>]_vars

\* SetMeta and ClearFileInfo were answered OK and the StartSend after them
\* was refused for want of a descriptor
C12_Witness ==
    \E c \in Conns :
        /\ plan[c].kind = "sync"
        /\ Len(plan[c].acts) = 3
        /\ got[c] = <<OK_B, OK_B, <<"'NoneType' object has no attribute 'dest_path'">>>>
        /\ sess[c].file_info = <<>>
        /\ ~Exists(fs, Rooted(RelDest))

\* C13: once a transfer has ended, by reaching its size or by the sentinel,
\* the session holds no descriptor, and the StartSend sent next without a new
\* SetMeta is answered non-OK.
C13_DescriptorCleared ==
    \A c \in Conns :
        (/\ plan[c].kind = "retransfer"
         /\ Len(got[c]) >= 3
         /\ got[c][2] = OK_B
         /\ got[c][3] = (IF plan[c].cancel THEN CANCELED_B ELSE OK_B))
        => /\ Len(executed[c]) = 2 => sess[c].file_info = <<>>
           /\ Len(got[c]) = 4 => got[c][4] # OK_B

\* the frame bodies of the complete frames at the head of a buffer
RECURSIVE C14_Frames(_)
C14_Frames(buf) ==
    IF Contains(buf, ETB)
    THEN <<Take(buf, IndexOf(buf, ETB) - 1)>> \o C14_Frames(Drop(buf, IndexOf(buf, ETB)))
    ELSE <<>>

\* what follows the last delimiter of a buffer
RECURSIVE C14_Rest(_)
C14_Rest(buf) ==
    IF Contains(buf, ETB) THEN C14_Rest(Drop(buf, IndexOf(buf, ETB))) ELSE buf

\* the actions of the well-formed frames, in order
RECURSIVE C14_Actions(_)
C14_Actions(frames) ==
    IF frames = <<>> THEN <<>>
    ELSE (IF ParseAction(Head(frames)).ok THEN <<ParseAction(Head(frames)).a>> ELSE <<>>)
         \o C14_Actions(Tail(frames))

\* one error response for each malformed frame
RECURSIVE C14_Errors(_)
C14_Errors(frames) ==
    IF frames = <<>> THEN <<>>
    ELSE (IF ParseAction(Head(frames)).ok THEN <<>>
          ELSE ParseErrorText \o ERROR_B \o <<ETB>>)
         \o C14_Errors(Tail(frames))

\* C14: a read in CONTROL removes from the inbound buffer exactly the
\* complete frames and their delimiters; each malformed frame among them
\* (undecodable, no JSON, no action) queues nothing and appends exactly one
\* error response (description, ERROR, delimiter) to the outbound buffer,
\* the well-formed frames around it are queued in order, and the session
\* stays registered while its peer is connected.
C14_MalformedFrameDropped ==
    [][\A c \in Conns :
          (~sess[c].is_receiving_file /\ peer'[c] = peer[c]
           /\ Len(wire'[c]) < Len(wire[c])) =>
              LET buf == sess[c].stdin \o Take(wire[c], Len(wire[c]) - Len(wire'[c]))
              IN /\ sess'[c].stdin = C14_Rest(buf)
                 /\ Reverse(sess'[c].actions)
                        = Reverse(sess[c].actions) \o C14_Actions(C14_Frames(buf))
                 /\ Answer(c) = C14_Errors(C14_Frames(buf))
                 /\ (Live(c) /\ peer[c] = "open") => c \in Range(sel')]_vars

\* an undecodable frame and the Echo behind it were read together: one error
\* response is out, the Echo is queued and the inbound buffer is empty
C14_Witness ==
    \E c \in Conns :
        /\ plan[c].kind = "garbage2"
        /\ plan[c].content = <<XFF>>
        /\ appended[c] = ParseErrorText \o ERROR_B \o <<ETB>>
        /\ sess[c].actions = <<Act(ECHO, IntV(7))>>
        /\ executed[c] = <<>>
        /\ sess[c].stdin = <<>>
        /\ wire[c] = <<>>
        /\ Live(c)

\* C15: a SetMeta or a ClearFileInfo executed while a file is being received
\* is answered with an error text and changes nothing else: the descriptor
\* (path, declared size, bytes received), the file handle, the mode flag,
\* the chunk size and the files are as they were and the session stays
\* registered.
C15_RejectedMidTransfer ==
    [][\A c \in Conns :
          (/\ Executes(c, SET_META) \/ Executes(c, CLEAR_FILE_INFO)
           /\ sess[c].is_receiving_file)
          => /\ Refuses(c)
             /\ sess'[c].file_info = sess[c].file_info
             /\ sess'[c].file_io = sess[c].file_io
             /\ sess'[c].is_receiving_file
             /\ sess'[c].file_block_size = sess[c].file_block_size
             /\ sess'[c].stdin = sess[c].stdin
             /\ fs' = fs
             /\ sel' = sel]_vars

\* a SetMeta naming another size was refused while the file was being
\* received, and the descriptor still declares the size of the transfer
C15_Witness ==
    \E c \in Conns :
        /\ plan[c].kind = "burst"
        /\ Len(executed[c]) = 3
        /\ executed[c][3] = Act(SET_META, MetaV(RelDest, 1))
        /\ Contains(appended[c], "Cannot set file metadata, currently receiving file")
        /\ sess[c].is_receiving_file
        /\ sess[c].file_info[1].size = 2
        /\ sess[c].file_io = <<Rooted(RelDest)>>

\* C16: a protocol call that met no socket failure finds a response in the
\* queue when it pops: _read_responses came back only after a complete
\* delimited response had been parsed, however the bytes of the server's
\* response were split.
C16_ResponseWait ==
    \A i \in 1..Len(rets) : rets[i].fail = "none" => rets[i].exc # "IndexError"

\* C17: the response queue holds the responses parsed and not yet consumed,
\* oldest at the end pop takes from; the responses consumed are, in order,
\* the first that arrived; a step consumes at most one, and a call that
\* returns a server response consumed exactly that one.
C17_ResponsesFifo ==
    /\ [](/\ IsPrefix(got[TheConn], arrived)
          /\ Reverse(responses) = Drop(arrived, Len(got[TheConn])))
    /\ [][/\ Len(got'[TheConn]) <= Len(got[TheConn]) + 1
          /\ (Len(rets') = Len(rets) + 1 /\ rets'[Len(rets')].server_response # <<>>)
             => /\ Len(got'[TheConn]) = Len(got[TheConn]) + 1
                /\ rets'[Len(rets')].server_response = <<arrived'[Len(got'[TheConn])]>>]_vars

\* two responses were in the queue and clear_file_info took the older one,
\* the newer one is still queued
C17_Witness ==
    /\ arrived = <<echo_msg, OK_B>>
    /\ got[TheConn] = <<echo_msg>>
    /\ responses = <<OK_B>>
    /\ Len(rets) = 3
    /\ rets[3].op = "clear_file_info"
    /\ rets[3].server_response = <<echo_msg>>

\* C18: a protocol call in which a send or a read failed, or the server had
\* closed the connection, returns False, raises nothing, has the error in
\* its ResponseMsg and consumed no response.
C18_FailuresReturnFalse ==
    \A i \in 1..Len(rets) : rets[i].fail \in {"send", "read", "eof"} =>
        /\ rets[i].ret = "False"
        /\ rets[i].exc = ""
        /\ rets[i].client_send # <<>> \/ rets[i].client_read # <<>>
        /\ rets[i].popped = 0

\* C19: a protocol call or a close made while the client is not connected
\* returns False, records the 'Client not connected' error in the result
\* object, sends nothing and leaves the response queue and the inbound
\* buffer as they were.
C19_NotConnected ==
    [][(/\ ~is_connected
        /\ Len(rets') = Len(rets) + 1
        /\ rets'[Len(rets')].op # "connect")
       => /\ rets'[Len(rets')].ret = "False"
          /\ rets'[Len(rets')].exc = ""
          /\ rets'[Len(rets')].client_send = <<NotConnected>>
          /\ rets'[Len(rets')].popped = 0
          /\ wire' = wire
          /\ responses' = responses
          /\ cstdin' = cstdin]_vars

\* after its connection was closed the client was asked for an echo and to
\* close again: both returned False with the error recorded
C19_Witness ==
    /\ Len(rets) = 6
    /\ rets[4].op = "close"
    /\ rets[4].ret = "None"
    /\ rets[5].op = "test_connection"
    /\ rets[5].ret = "False"
    /\ rets[5].client_send = <<NotConnected>>
    /\ rets[6].op = "close"
    /\ rets[6].ret = "False"
    /\ rets[6].client_send = <<NotConnected>>
    /\ ~is_connected

\* C20: after any sequence of connect and close calls, failed connects
\* included, every socket other than the one held is closed, and
\* is_connected is true exactly when the socket held is connected.
C20_OneConnection ==
    /\ \A i \in 1..MaxSocks : sock # <<i>> => socks[i] \in {"none", "closed"}
    /\ is_connected <=> (sock # <<>> /\ socks[sock[1]] = "connected")

\* the bytes the server's recv took from connection c in this step
ReadNow(c) ==
    IF peer'[c] = peer[c] /\ Len(wire'[c]) < Len(wire[c])
    THEN Take(wire[c], Len(wire[c]) - Len(wire'[c])) ELSE <<>>

\* C22: bytes read from the socket of a session that is receiving a file
\* leave the inbound buffer and the action queue as they were: they are
\* appended to the open file, or, ending in the sentinel, cancel the transfer
\* and remove the file; bytes read from a session in control mode leave every
\* file as it was.
C22_ModeGating ==
    [][\A c \in Conns :
          ReadNow(c) # <<>>
          => IF sess[c].is_receiving_file
             THEN /\ sess'[c].stdin = sess[c].stdin
                  /\ sess'[c].actions = sess[c].actions
                  /\ IF EndsWith(ReadNow(c), CANCEL_B)
                     THEN /\ ~sess'[c].is_receiving_file
                          /\ ~Exists(fs', sess[c].file_io[1])
                     ELSE fs' = [fs EXCEPT ![sess[c].file_io[1]] =
                                     FileOf(@.data \o ReadNow(c))]
             ELSE fs' = fs]_vars

\* a session in the middle of a transfer: the bytes read so far are in the
\* file, none in the inbound buffer, no action queued
C22_Witness ==
    \E c \in Conns :
        /\ sess[c].is_receiving_file
        /\ sess[c].file_info[1].size_transmited \in 1..Len(plan[c].content)
        /\ fs[sess[c].file_io[1]].data = Take(plan[c].content, sess[c].file_info[1].size_transmited)
        /\ sess[c].stdin = <<>>
        /\ sess[c].actions = <<>>

\* C23: every file a StartSend opens for a descriptor that SetMeta registered
\* from a relative destination lies in the server's root directory or below
\* it, destinations with ".." components included.
C23_OpenedUnderRoot ==
    \A c \in Conns :
        (sess[c].file_io # <<>> /\ IsPrefix(RootDir, sess[c].file_io[1]))
        => UnderRoot(sess[c].file_io[1])

\* the event of a session socket that this step dispatched
Dispatched(e) == e \in events /\ e \notin events' /\ e.c # Listener

\* C24: a dispatched read that finds the stream ended or the connection
\* reset, and a dispatched write that fails, tear the session down: it leaves
\* the readiness set and the server goes on; of a session that is not
\* registered no action is executed and no byte is sent.
C24_Teardown ==
    [][/\ \A e \in events :
             (/\ Dispatched(e)
              /\ \/ e.r /\ wire[e.c] = <<>> /\ RecvSize(sess[e.c]) >= 0
                 \/ /\ e.w /\ ~e.r /\ sess[e.c].stdout # <<>>
                    /\ delivered'[e.c] = delivered[e.c])
             => /\ e.c \notin Range(sel')
                /\ ~crashed'
       /\ \A c \in Conns :
             c \notin Range(sel)
             => /\ executed'[c] = executed[c]
                /\ delivered'[c] = delivered[c]
                /\ sess'[c] = sess[c]]_vars

\* a step of the pass: _handle_action ran for the session at the head of tick
PassStep == tick # <<>> /\ tick' = Tail(tick)

\* one delimiter-terminated response
OneFrame(bs) ==
    /\ Len(bs) > 0
    /\ bs[Len(bs)] = ETB
    /\ ~Contains(Take(bs, Len(bs) - 1), ETB)

\* C21: a pass visits every registered session once, in order, and starts
\* only when every event of the last select has been dispatched; at its visit
\* a session with queued actions has exactly the oldest one executed, which
\* (its identifier being one of the protocol's) appends exactly one
\* delimiter-terminated response to that session's outbound buffer; a session
\* with an empty queue is left as it is; no other session is touched by the
\* visit, and no action is executed outside a pass.
C21_OnePerPass ==
    /\ [](\E n \in 0..Len(sel) : tick = Drop(sel, n))
    /\ [][/\ PassStep
             => /\ LET c == Head(tick)
                       q == sess[c].actions
                   IN IF q = <<>>
                      THEN /\ sess'[c] = sess[c]
                           /\ executed'[c] = executed[c]
                           /\ appended'[c] = appended[c]
                      ELSE /\ sess'[c].actions = Take(q, Len(q) - 1)
                           /\ executed'[c] = Append(executed[c], q[Len(q)])
                           /\ q[Len(q)].action \in ActionIds => OneFrame(Answer(c))
                /\ \A d \in Conns \ {Head(tick)} :
                      /\ sess'[d] = sess[d]
                      /\ executed'[d] = executed[d]
                      /\ appended'[d] = appended[d]
          /\ executed' # executed => PassStep
          /\ (events # {} /\ events' = {}) => tick' = sel'
          /\ (events = {} /\ events' # {}) => tick = <<>>]_vars

\* two sessions served side by side: one had two actions queued at once and
\* both were executed, with two responses, while the other had its own
\* action executed
C21_Witness ==
    \E c, d \in Conns :
        /\ c # d
        /\ plan[c].kind = "pipe"
        /\ Len(executed[c]) = 2
        /\ appended[c] = <<"h", ETB>> \o OK_B \o <<ETB>>
        /\ Len(sess[d].actions) = 1
        /\ Len(executed[d]) = 0
        /\ Live(c) /\ Live(d)

\* session c is registered and the server's loop is running
Served(c) == Live(c) /\ ~crashed

\* C28: while the loop keeps running and the session stays registered, every
\* action queued on a session is executed and every response in its
\* outbound buffer is handed to the transport, whatever the other session is
\* doing; each visit of a pass takes one action off a non-empty queue, so k
\* queued actions are gone after k passes.
C28_NoStarvation ==
    /\ \A c \in Conns :
          /\ (Served(c) /\ sess[c].actions # <<>>) ~> (sess[c].actions = <<>> \/ ~Served(c))
          /\ (Served(c) /\ sess[c].stdout # <<>>) ~> (sess[c].stdout = <<>> \/ ~Served(c))
    /\ [][PassStep => Len(sess'[Head(tick)].actions) \in
                         {0, Len(sess[Head(tick)].actions) - 1}]_vars

\* the session registered second has had its action executed and its
\* response sent while the session registered first still had an action
\* queued and a response to send
C28_Witness ==
    \E c, d \in Conns :
        /\ sel = <<c, d>>
        /\ sess[c].actions # <<>>
        /\ sess[c].stdout # <<>>
        /\ Len(executed[d]) = 1
        /\ delivered[d] # <<>>
        /\ delivered[d] = appended[d]
        /\ ~crashed

\* the bytes the client put on its connection in this step
SentNow ==
    IF Len(wire'[TheConn]) > Len(wire[TheConn])
    THEN Drop(wire'[TheConn], Len(wire[TheConn])) ELSE <<>>

\* a turn of the loop of send_file
SendStep == cpc = "data" /\ (cpc' # "data" \/ SentNow # <<>>)

\* the call the client is in
TheCall == Head(script[TheConn])

\* C25: a turn of the send loop that finds bytes still to send and
\* cancel_transfer or cancel_all set sends the sentinel and nothing else
\* (or fails in that send), clears cancel_transfer and leaves the loop for
\* the final read, from where no byte of the file is sent any more; the
\* window takes a cancel request only between two turns, so the turn after
\* the request is the one that sends the sentinel.
C25_CancelAtChunkBoundary ==
    [][/\ (SendStep /\ size_sent # TheCall.size /\ (cancel_transfer \/ cancel_all))
          => /\ size_sent' = size_sent
             /\ \/ SentNow = CANCEL_B /\ ~cancel_transfer' /\ cpc' = "wait2"
                \/ /\ SentNow = <<>> /\ cpc' = "idle"
                   /\ rets'[Len(rets')].fail = "send"
       /\ cpc = "wait2" => SentNow = <<>>
       /\ (cpc = "update" /\ cpc' # cpc) => (cpc' = "data" /\ SentNow = <<>>)
       /\ (cancel_transfer' /\ ~cancel_transfer) \/ (cancel_all' /\ ~cancel_all)
          => cpc = "update"]_vars

\* the user clicked Cancel after the first of two blocks: the sentinel went
\* out instead of the second block and the client is in its final read
C25_Witness ==
    /\ cpc = "wait2"
    /\ TheCall.op = "send_file"
    /\ TheCall.size = 2
    /\ size_sent = 1
    /\ ~cancel_button
    /\ ~cancel_transfer
    /\ ~cancel_all

\* C26: send_file returns from the loop only through one more read of
\* responses, except when a send fails; that read ends the call, which
\* returns True exactly when the response it consumed is OK; the response it
\* records is the one it consumed, a response the server sent; when it
\* consumed none it records none and does not return True.
C26_FinalReadDecides ==
    [][/\ (cpc = "wait2" /\ cpc' # "wait2")
          => /\ cpc' = "idle"
             /\ Len(rets') = Len(rets) + 1
             /\ LET r == rets'[Len(rets')]
                IN /\ r.op = "send_file"
                   /\ r.ret = "True" <=> r.server_response = <<OK_B>>
                   /\ r.server_response # <<>>
                      => /\ r.popped = 1
                         /\ got'[TheConn] = got[TheConn] \o r.server_response
                         /\ \E i \in 1..Len(arrived') : arrived'[i] = r.server_response[1]
                   /\ r.server_response = <<>>
                      => /\ r.ret \in {"False", "raised"}
                         /\ got' = got
       /\ (cpc = "data" /\ cpc' = "idle")
          => /\ rets'[Len(rets')].fail = "send"
             /\ rets'[Len(rets')].ret # "True"
             /\ rets'[Len(rets')].server_response = <<>>]_vars

\* of two files sent one was completed and its send_file returned True with
\* OK, the other was cancelled and its send_file returned False with
\* CANCELED recorded
C26_Witness ==
    \E i, j \in 1..Len(rets) :
        /\ rets[i].op = "send_file"
        /\ rets[i].ret = "True"
        /\ rets[i].server_response = <<OK_B>>
        /\ rets[j].op = "send_file"
        /\ rets[j].ret = "False"
        /\ rets[j].server_response = <<CANCELED_B>>

\* C27: a turn of the send loop that sends file bytes sends those of the
\* source file from offset size_sent on, at most min(file_block_size,
\* declared size - size_sent) of them, and adds their number to size_sent,
\* which never goes down and never exceeds the declared size; the sentinel
\* is sent only while size_sent is below the declared size.
C27_Chunking ==
    /\ [](cpc \in {"data", "update", "wait2"} => size_sent \in 0..TheCall.size)
    /\ [][SendStep
          => /\ size_sent' >= size_sent
             /\ IF SentNow = CANCEL_B
                THEN size_sent < TheCall.size /\ size_sent' = size_sent
                ELSE /\ Len(SentNow) <= Min(FileBlockSize, TheCall.size - size_sent)
                     /\ size_sent' = size_sent + Len(SentNow)
                     /\ SentNow = SendFile(TheCall.data, size_sent, Len(SentNow))]_vars

\* a file of two bytes went out in two blocks of one byte
C27_Witness ==
    /\ cpc = "wait2"
    /\ FileBlockSize = 1
    /\ TheCall.op = "send_file"
    /\ TheCall.size = 2
    /\ size_sent = 2
    /\ ~cancel_transfer
    /\ cancel_button

\* C29: the sentinel is sent during the transfer of a file only when a
\* cancel request was made during that transfer: Cancel was clicked since
\* the loop of the batch enabled it for this file, or Cancel all is pending.
C29_CancelStaysInTransfer ==
    [][(SendStep /\ SentNow = CANCEL_B) => (~cancel_button \/ cancel_all)]_vars

\* C30: the client is never in the final read of send_file, with nothing
\* left to read, while the server is receiving the file with nothing left
\* to read or to send.
C30_NoDeadlock ==
    ~(/\ cpc = "wait2"
      /\ ~crashed
      /\ Live(TheConn)
      /\ sess[TheConn].is_receiving_file
      /\ wire[TheConn] = <<>>
      /\ sess[TheConn].stdout = <<>>
      /\ Drop(delivered[TheConn], rxpos[TheConn]) = <<>>)

\* the step put session c into RECEIVING_FILE
Enters(c) == ~sess[c].is_receiving_file /\ sess'[c].is_receiving_file

\* C31: whenever a session enters RECEIVING_FILE the bytes-received counter
\* of its descriptor is 0 and the destination file is empty, also when the
\* StartSend follows a cancelled transfer with no SetMeta in between.
C31_FreshTransfer ==
    [][\A c \in Conns :
          Enters(c) => /\ sess'[c].file_info[1].size_transmited = 0
                       /\ fs'[sess'[c].file_io[1]] = FileOf(<<>>)]_vars

\* C32: the execution of a queued action, whatever its action identifier,
\* leaves the server's loop running and every session registered and appends
\* exactly one delimiter-terminated response to the session's outbound buffer.
C32_ServerKeepsRunning ==
    [][\A c \in Conns :
          Len(executed'[c]) = Len(executed[c]) + 1
          => /\ ~crashed'
             /\ sel' = sel
             /\ OneFrame(Answer(c))]_vars

\* C33: _close_connection runs at most once for a session, and a dispatch in
\* which the read path closed the session hands no byte of that session to
\* the transport afterwards, whatever waits in its outbound buffer.
C33_TornDownOnce ==
    /\ [](\A c \in Conns : teardowns[c] <= 1)
    /\ [][\A c \in Conns :
             (/\ teardowns'[c] > teardowns[c]
              /\ \E e \in events : e.c = c /\ e.r /\ e \notin events' /\ ReadNow(c) = <<>>)
             => delivered'[c] = delivered[c]]_vars

\* C34: the response appended for an executed action of the protocol holds
\* the delimiter exactly once, as its last byte, whatever the payload, an
\* Echo text with the character U+0017 included.
C34_OneDelimiter ==
    [][\A c \in Conns :
          (\E k \in ActionIds : Executes(c, k)) => OneFrame(Answer(c))]_vars

\* C35: the bytes a client sends behind a StartSend frame are the content of
\* the transfer that StartSend opens, however the stream is cut into reads:
\* once the StartSend has been executed and answered OK and every byte sent
\* has been read, the bytes are in the destination file and none is left in
\* the inbound buffer.
C35_ModeSwitch ==
    \A c \in Conns :
        (/\ plan[c].kind = "eager"
         /\ Len(executed[c]) = 2
         /\ IsPrefix(OK_B \o <<ETB>> \o OK_B \o <<ETB>>, appended[c])
         /\ wire[c] = <<>>)
        => /\ sess[c].stdin = <<>>
           /\ fs[Rooted(plan[c].dest)] = FileOf(plan[c].content)

\* C36: the chunk size of every session is at least 1 in every reachable
\* state, whatever SetFileBlockSize payloads were sent, and a session leaves
\* the readiness set only when its peer has closed or reset the connection.
C36_ChunkSizePositive ==
    /\ [](\A c \in Conns : sess[c].file_block_size >= 1)
    /\ [][\A c \in Conns :
             (c \in Range(sel) /\ c \notin Range(sel')) => peer[c] \in {"closed", "reset"}]_vars

\* session d has the file at p open for writing, or has received it completely
Holds(d, p) ==
    /\ sess[d].file_info # <<>>
    /\ sess[d].file_info[1].dest_path = p
    /\ fs[p].exists
    /\ \/ sess[d].file_io = <<p>>
       \/ /\ ~sess[d].is_receiving_file
          /\ sess[d].file_info[1].size_transmited = sess[d].file_info[1].size
          /\ sess[d].file_info[1].size > 0

\* C37: no two sessions have the same destination open at the same time, and
\* a step that leaves a session as it is (a StartSend, a read of data or of
\* the sentinel for another session) leaves every file as it is that the
\* session is receiving or has received completely.
C37_OneWriter ==
    /\ [](\A c, d \in Conns :
             (c # d /\ sess[c].file_io # <<>>) => sess[c].file_io # sess[d].file_io)
    /\ [][\A d \in Conns : \A p \in AllPaths :
             (Holds(d, p) /\ sess'[d] = sess[d]) => fs'[p] = fs[p]]_vars

\* one session cancelled its transfer and the file was removed; the other
\* then opened the same destination and is receiving it, and the StartSend
\* the first sent again was refused because the file exists
C37_Witness ==
    \E c, d \in Conns :
        /\ c # d
        /\ plan[c].kind = "resume"
        /\ Len(got[c]) = 4
        /\ got[c][3] = CANCELED_B
        /\ got[c][4] = <<"File '", "a", "' already exists">>
        /\ sess[d].is_receiving_file
        /\ sess[d].file_io = <<Rooted(RelDest)>>
        /\ fs[Rooted(RelDest)].exists

\* C38: when connect() returns the inbound buffer and the response queue of
\* the client are empty, and when a protocol call returns with the response
\* it consumed the response queue is empty.
C38_NoLeak ==
    [][Len(rets') = Len(rets) + 1
       => LET r == rets'[Len(rets')]
          IN /\ (r.op = "connect" /\ r.ret = "None") => (cstdin' = <<>> /\ responses' = <<>>)
             /\ (r.op \in ProtocolCalls /\ r.popped = 1) => responses' = <<>>]_vars

\* C39: the loop of send_file is always left again, whatever the declared
\* size and the source file hold, with no cancel request needed.
C39_SendLoopTerminates ==
    (cpc \in {"data", "update"}) ~> (cpc \notin {"data", "update"})

\* the window's client starts the call at the head of its script
CallStarts == cpc = "idle" /\ (cpc' # "idle" \/ Len(rets') > Len(rets))

\* C40: with cancel_all set, a turn of the send loop that finds bytes still
\* to send sends the sentinel (or fails in that send); once Cancel all has
\* been clicked in a batch no set_file_info and no send_file is started in
\* that batch; and when the lines after the loop over the files have run,
\* cancel_all and cancel_transfer are false and Cancel all is disabled.
C40_BatchCancel ==
    [][/\ (SendStep /\ cancel_all /\ size_sent # TheCall.size)
          => (SentNow = CANCEL_B \/ (SentNow = <<>> /\ cpc' = "idle"))
       /\ (Mwh /\ CallStarts /\ TheCall.op \in {"set_file_info", "send_file"})
          => cancel_all_button
       /\ (cpc = "idle" /\ script[TheConn] # <<>> /\ TheCall.op = "batch_end"
           /\ script'[TheConn] # script[TheConn])
          => (~cancel_all' /\ ~cancel_transfer' /\ ~cancel_all_button')]_vars

\* Cancel all was clicked while the first of two files was half sent: the
\* loop was left with one of the two bytes sent and no send failed, so the
\* sentinel went out; send_file returned with the server's answer, nothing
\* was sent for the second file, and the batch has ended with no
\* cancellation pending
C40_Witness ==
    /\ Mwh
    /\ FileBlockSize = 1
    /\ script[TheConn] = <<Call("close")>>
    /\ Len(rets) = 4
    /\ rets[4].op = "send_file"
    /\ rets[4].fail = "none"
    /\ rets[4].popped = 1
    /\ size_sent = 1
    /\ ~Exists(fs, Rooted(RelDest2))
    /\ ~cancel_all
    /\ ~cancel_transfer
    /\ ~cancel_all_button
====
